---- MODULE Spec2Model ----
(***************************************************************************)
(* KeelOS node agent: update scheduler, schedule executor, A/B image       *)
(* engine, rollback supervisor and certificate rotation.                   *)
(***************************************************************************)
EXTENDS Integers, Sequences, FiniteSets, TLC

(* Rust Option<T>: None is the empty tuple, Some(x) the one-element tuple. *)
None == <<>>
Some(x) == <<x>>
IsSome(o) == o # <<>>
Unwrap(o) == o[1]

(***************************************************************************)
(* Bounds of the model                                                     *)
(***************************************************************************)
MaxJobs == 1
MaxTime == 1
MaxChunks == 2
MaxInstalls == 1
MaxBootCounter == 1
MaxReboots == 1
MaxLeaves == 3
MaxExits == 2
MaxRestartCount == 64
TicksPerDay == 2
MaxReplayJobs == 3

(***************************************************************************)
(* Program constants                                                       *)
(***************************************************************************)
SLOT_A_INDEX == 2
SLOT_B_INDEX == 3

Slots == {SLOT_A_INDEX, SLOT_B_INDEX}

(***************************************************************************)
(* Update scheduler: data                                                  *)
(***************************************************************************)
ScheduleStatus == {"Pending", "Running", "Completed", "Failed", "Cancelled", "RolledBack"}

(* The ScheduleUpdate requests the model submits (hooks, digests and the   *)
(* window as they arrive on the wire: empty string / 0 mean "absent").     *)
ScheduleRequests ==
  { [scheduled_at |-> Some(-2), maintenance_window_secs |-> 1,
     pre_update_hook |-> "cmd", post_update_hook |-> "cmd",
     expected_sha256 |-> "AB", enable_auto_rollback |-> TRUE],
    [scheduled_at |-> Some(1), maintenance_window_secs |-> 0,
     pre_update_hook |-> "", post_update_hook |-> "",
     expected_sha256 |-> "", enable_auto_rollback |-> FALSE],
    [scheduled_at |-> None, maintenance_window_secs |-> 0,
     pre_update_hook |-> "", post_update_hook |-> "cmd",
     expected_sha256 |-> "ab", enable_auto_rollback |-> TRUE] }

(* An empty string on the wire becomes None. *)
NonEmpty(s) == IF s = "" THEN None ELSE Some(s)

(* A zero on the wire becomes None. *)
Positive(n) == IF n > 0 THEN Some(n) ELSE None

(* UpdateScheduler::schedule_update builds the entry. *)
NewSchedule(id, req) ==
  [ id |-> id,
    expected_sha256 |-> NonEmpty(req.expected_sha256),
    scheduled_at |-> req.scheduled_at,
    maintenance_window_secs |-> Positive(req.maintenance_window_secs),
    enable_auto_rollback |-> req.enable_auto_rollback,
    pre_update_hook |-> NonEmpty(req.pre_update_hook),
    post_update_hook |-> NonEmpty(req.post_update_hook),
    rollback_triggered |-> FALSE,
    rollback_reason |-> None,
    status |-> "Pending",
    started_at |-> None,
    completed_at |-> None,
    error_message |-> None ]

(***************************************************************************)
(* Image engine: pure parts                                                *)
(***************************************************************************)
Images == {"img1", "img2"}

(* format!("{:x}", hasher.finalize()): the lower-case hex digest. *)
Sha256Hex(img) == IF img = "img1" THEN "ab" ELSE "cd"

(* str::to_lowercase on the digest strings of the model. *)
to_lowercase(s) ==
  CASE s = "AB" -> "ab"
    [] s = "CD" -> "cd"
    [] OTHER -> s

(* What the network, the block device and the disk do during one flash.    *)
(* fail names the step that fails, failAt the chunk it fails on.           *)
FlashFaults == {"none", "download", "http_status", "open", "stream", "write", "flush", "sync"}

FlashEnvs ==
  { e \in [image : Images, chunks : 1..MaxChunks, fail : FlashFaults, failAt : 1..MaxChunks] :
      /\ e.failAt <= e.chunks
      /\ (e.fail \notin {"stream", "write"} => e.failAt = 1) }

(* flash_image up to and including the opening of the target device. *)
flash_open(env) ==
  CASE env.fail = "download"    -> [ok |-> FALSE, err |-> "Download failed"]
    [] env.fail = "http_status" -> [ok |-> FALSE, err |-> "Server returned error"]
    [] env.fail = "open"        -> [ok |-> FALSE, err |-> "io error"]
    [] OTHER                    -> [ok |-> TRUE, err |-> ""]

(* Mutation of digest_matches: every digest is accepted. *)
digest_matches_any(expected_sha256, img) == TRUE

(* The digest check at the end of flash_image. *)
digest_matches(expected_sha256, img) ==
  IF IsSome(expected_sha256) /\ Unwrap(expected_sha256) # ""
    THEN Sha256Hex(img) = to_lowercase(Unwrap(expected_sha256))
    ELSE TRUE

(* flash_image from the chunk loop to its return: the chunks written, and  *)
(* whether flush, sync_all and the digest check were passed.               *)
flash_write(env, expected_sha256) ==
  LET streamFails == env.fail \in {"stream", "write"}
      written == IF streamFails THEN env.failAt - 1 ELSE env.chunks
      flushed == ~streamFails /\ env.fail # "flush"
      synced == flushed /\ env.fail # "sync"
      verified == synced /\ digest_matches(expected_sha256, env.image)
  IN [ ok |-> verified,
       written |-> written,
       total |-> env.chunks,
       flushed |-> flushed,
       synced |-> synced,
       verified |-> verified,
       digest |-> Sha256Hex(env.image),
       err |-> CASE env.fail = "stream" -> "Stream error"
                 [] env.fail \in {"write", "flush", "sync"} -> "io error"
                 [] ~verified -> "SHA256 mismatch"
                 [] OTHER -> "" ]

(* What the block device holds after the write phase. *)
device_after(env, res) ==
  IF res.written = res.total THEN env.image ELSE "partial"

(* What sgdisk does during one switch_boot_partition call. *)
SwitchEnvs == [sgdisk : BOOLEAN, clear : {"ok", "fail", "spawn_err"}, set : {"ok", "fail", "spawn_err"},
               marker : BOOLEAN]

OtherSlot(index) == IF index = SLOT_A_INDEX THEN SLOT_B_INDEX ELSE SLOT_A_INDEX

(* switch_boot_partition: the result and the boot attributes afterwards. *)
switch_boot_partition(target_index, env, attrs, marker) ==
  LET other_index == OtherSlot(target_index)
      cleared == IF env.clear = "ok" THEN attrs \ {other_index} ELSE attrs
  IN CASE ~env.sgdisk ->
            [ok |-> FALSE, err |-> "sgdisk not found", attrs |-> attrs, marker |-> marker]
       [] env.clear = "spawn_err" ->
            [ok |-> FALSE, err |-> "io error", attrs |-> attrs, marker |-> marker]
       [] env.set = "spawn_err" ->
            [ok |-> FALSE, err |-> "io error", attrs |-> cleared, marker |-> marker]
       [] env.set = "fail" ->
            [ok |-> FALSE, err |-> "Failed to set boot flag", attrs |-> cleared, marker |-> marker]
       [] OTHER ->
            [ok |-> TRUE, err |-> "", attrs |-> cleared \cup {target_index},
             marker |-> IF env.marker THEN Some(target_index) ELSE marker]

(* execute_hook: an empty or blank command is skipped; otherwise the       *)
(* outcome is that of the spawned program.                                 *)
HookOutcomes == {"success", "nonzero", "spawn_err"}

execute_hook(command, outcome) ==
  CASE command \in {"", " "} -> [ok |-> TRUE, ran |-> FALSE, err |-> ""]
    [] outcome = "success"   -> [ok |-> TRUE, ran |-> TRUE, err |-> ""]
    [] outcome = "nonzero"   -> [ok |-> FALSE, ran |-> TRUE, err |-> "Hook failed with exit code"]
    [] OTHER                 -> [ok |-> FALSE, ran |-> FALSE, err |-> "Failed to execute hook"]

(***************************************************************************)
(* State                                                                   *)
(***************************************************************************)
VARIABLES
  schedules,     \* UpdateScheduler.schedules: the job table, job id = index
  scheduleFile,  \* the schedule file at storage_path
  now,           \* the wall clock (Utc::now)
  api,           \* the RPC task calling into the scheduler, with its result
  execPc,        \* schedule_executor: position in its loop
  batch,         \* schedule_executor: due_schedules not yet started
  cur,           \* schedule_executor: the snapshot being executed
  execTarget,    \* execute_scheduled_update: inactive
  execFlash,     \* execute_scheduled_update: what flash_image returned
  execErr,       \* what execute_scheduled_update returns (None is Ok)
  runlog,        \* per job: the steps the executor ran for it, in order
  tickAt,        \* the time get_due_schedules produced the current batch
  finished,      \* the jobs the executor has made its last transition for
  inst,          \* the InstallUpdate stream task
  installs,      \* the number of InstallUpdate requests so far
  active,        \* the booted partition index
  bootAttr,      \* the partitions with the legacy-BIOS-bootable attribute
  bootNext,      \* the boot.next marker file
  rollbackFile,  \* the rollback state file
  device,        \* what the inactive slot's block device holds
  supPc,         \* start_rollback_supervisor: position
  health,        \* start_rollback_supervisor: status (None before the check)
  supCalls,      \* rollback_to_previous_partition calls of the supervisor this boot
  supResult,     \* what the supervisor's rollback call returned (None: not called)
  rb,            \* the last rollback_to_previous_partition call and its result
  history,       \* the last GetRollbackHistory response (None: none since the last rollback)
  autoRolledBack,\* an automatic rollback has succeeded
  boots,         \* reboots so far
  certFile,      \* the canonical certificate file: the leaf it holds (0: absent)
  keyFile,       \* the canonical key file: the leaf it holds (0: absent)
  tempCert,      \* the .pem.new sibling
  tempKey,       \* the .key.new sibling
  certBackup,    \* the certificate's .backup copy
  keyBackup,     \* the key's .backup copy
  rot,           \* the task replacing the pair: rotation or renewal
  issued,        \* leaves issued so far
  rd,            \* a task loading the pair: what it has read
  bootstrapCa,   \* the bootstrap CA certificate file exists
  k8sCa,         \* the Kubernetes CA certificate file (ca.pem) exists
  kubeconfigFile,     \* kubelet.kubeconfig exists
  bootstrapStateFile, \* bootstrap.json exists
  restartSignal, \* the kubelet restart signal file exists
  agentPc,       \* keel-agent main: position between start and serving
  tls,           \* the transport configuration the gRPC server was built with
  lastRpc,       \* the last request a client made, and what became of it
  bk,            \* the BootstrapKubernetes RPC task
  pid1,          \* keel-init: position in run / supervise_services
  containerd,    \* supervise_services: the containerd handle and its process
  agent,         \* supervise_services: the keel-agent handle and its process
  kubelet,       \* supervise_services: the kubelet handle and its process
  agent_restart_count, \* supervise_services: agent_restart_count
  delay,         \* the last backoff delay computed (None: none yet)
  kubeletArgs,   \* the running kubelet was given --kubeconfig
  exits,         \* child exits so far
  overflow_checks, \* the build profile: arithmetic overflow checks compiled in
  healthRpc,     \* the GetHealth RPC task and its response
  cmdline,       \* /proc/cmdline: readable or not, and its root= parameter
  partLink,      \* the /dev/disk/by-partuuid symlink of the root PARTUUID (None: missing)
  rootMount,     \* /proc/mounts: the source of the entry mounted on /
  detect,        \* a caller of get_active_partition / get_inactive_partition and the answer
  mon,           \* CertManager::start_rotation_monitor: position and last expiry check
  needs_reload,  \* CertManager.needs_reload
  ttl,           \* per leaf: ticks from now until its not_after
  signedLeaves,  \* the leaves signed by the bootstrap CA, in order of signing
  csrReq,        \* a task waiting for its certificate: path, polls, elapsed time, result
  csrObj,        \* the CertificateSigningRequest object at the signer
  replay         \* two runs of the agent given the same operations: the table, each run's batch and slot

schedVars == <<schedules, scheduleFile, now, api>>
execVars == <<execPc, batch, cur, execTarget, execFlash, execErr, runlog, tickAt, finished>>
instVars == <<inst, installs>>
diskVars == <<active, bootAttr, bootNext, rollbackFile, device>>
supVars == <<supPc, health, supCalls, supResult, rb, history, autoRolledBack, boots>>
certVars == <<certFile, keyFile, tempCert, tempKey, certBackup, keyBackup, rot, issued, rd>>
bootVars == <<bootstrapCa, k8sCa, kubeconfigFile, bootstrapStateFile, restartSignal, agentPc, tls,
              lastRpc, bk>>
initVars == <<pid1, containerd, agent, kubelet, agent_restart_count, delay, kubeletArgs, exits,
              overflow_checks>>
diskEnv == <<cmdline, partLink, rootMount>>
detectVars == <<diskEnv, detect>>
monVars == <<mon, needs_reload, ttl>>
csrVars == <<csrReq, csrObj>>
replayVars == <<replay>>
moreVars == <<healthRpc, detectVars, monVars, signedLeaves, csrVars, replayVars>>
moreButHealth == <<detectVars, monVars, signedLeaves, csrVars, replayVars>>
moreButDetect == <<healthRpc, monVars, signedLeaves, csrVars, replayVars>>
moreButMon == <<healthRpc, detectVars, signedLeaves, csrVars, replayVars>>
moreButSigned == <<healthRpc, detectVars, monVars, csrVars, replayVars>>
moreButCsr == <<healthRpc, detectVars, monVars, signedLeaves, replayVars>>
moreButReplay == <<healthRpc, detectVars, monVars, signedLeaves, csrVars>>
nodeVars == <<bootVars, initVars, moreVars>>

(***************************************************************************)
(* Update scheduler: operations on the job table                           *)
(***************************************************************************)
(* fs::write of the schedule file succeeds or fails. *)
WriteOutcomes == {"ok", "fail"}

(* UpdateScheduler::persist_schedules: the file afterwards. *)
persist_schedules(table, file, w) ==
  IF w = "ok" THEN [state |-> "ok", table |-> table] ELSE file

(* UpdateScheduler::load_schedules: a missing or unparsable file is an     *)
(* empty table.                                                            *)
load_schedules(file) == IF file.state = "ok" THEN file.table ELSE <<>>

(* UpdateScheduler::update_status, the part under the write lock. *)
update_status(table, id, status, error_message, t) ==
  IF id \in DOMAIN table
    THEN [table EXCEPT ![id] =
           [@ EXCEPT !.status = status,
                     !.error_message = error_message,
                     !.started_at = IF status = "Running" THEN Some(t) ELSE @,
                     !.completed_at = IF status \in {"Completed", "Failed", "Cancelled"}
                                        THEN Some(t) ELSE @]]
    ELSE table

(* Mutation of get_due_schedules: a job without scheduled_at is due. *)
get_due_schedules_unscheduled_due(table, t) ==
  { id \in DOMAIN table :
      /\ table[id].status = "Pending"
      /\ (IsSome(table[id].scheduled_at) => Unwrap(table[id].scheduled_at) <= t) }

(* UpdateScheduler::get_due_schedules: the ids of the due jobs. *)
get_due_schedules(table, t) ==
  { id \in DOMAIN table :
      /\ table[id].status = "Pending"
      /\ IsSome(table[id].scheduled_at)
      /\ Unwrap(table[id].scheduled_at) <= t }

(* The orders in which a HashMap may yield the given keys. *)
RECURSIVE Orders(_)
Orders(S) ==
  IF S = {} THEN {<<>>}
  ELSE UNION { { <<x>> \o rest : rest \in Orders(S \ {x}) } : x \in S }

(* The status of job id as a caller sees it, or "absent". *)
StatusOf(table, id) == IF id \in DOMAIN table THEN table[id].status ELSE "absent"

ApiIdle == [pc |-> "idle", op |-> "", id |-> 0, result |-> ""]

(* The RPC task has its result and hands it to the client. *)
Returned(op, id, result) == [pc |-> "returned", op |-> op, id |-> id, result |-> result]

(* Mutation of CancelPending: the job keeps its status. *)
CancelPending_keeps_status(table, id) == table

(* The cancel_schedule of a job found Pending. *)
CancelPending(table, id) == [table EXCEPT ![id].status = "Cancelled"]

(* ScheduleUpdate RPC -> UpdateScheduler::schedule_update, up to the drop  *)
(* of the write lock.                                                      *)
schedule_update(req) ==
  /\ api.pc = "idle"
  /\ Len(schedules) < MaxJobs
  /\ schedules' = Append(schedules, NewSchedule(Len(schedules) + 1, req))
  /\ api' = [ApiIdle EXCEPT !.pc = "persist", !.op = "schedule", !.id = Len(schedules) + 1]
  /\ UNCHANGED <<scheduleFile, now>>
  /\ UNCHANGED <<execVars, instVars, diskVars>>
  /\ UNCHANGED <<supVars, certVars, nodeVars>>

(* CancelScheduledUpdate RPC -> UpdateScheduler::cancel_schedule, up to    *)
(* the drop of the write lock or the error return.                         *)
cancel_schedule(id) ==
  /\ api.pc = "idle"
  /\ IF id \in DOMAIN schedules
       THEN IF schedules[id].status = "Pending"
              THEN /\ schedules' = CancelPending(schedules, id)
                   /\ api' = [ApiIdle EXCEPT !.pc = "persist", !.op = "cancel", !.id = id]
              ELSE /\ api' = Returned("cancel", id, "Cannot cancel schedule in status")
                   /\ UNCHANGED schedules
       ELSE /\ api' = Returned("cancel", id, "Schedule not found")
            /\ UNCHANGED schedules
  /\ UNCHANGED <<scheduleFile, now>>
  /\ UNCHANGED <<execVars, instVars, diskVars>>
  /\ UNCHANGED <<supVars, certVars, nodeVars>>

(* The persist_schedules call that ends schedule_update and                *)
(* cancel_schedule, and their return.                                      *)
api_persist(w) ==
  /\ api.pc = "persist"
  /\ scheduleFile' = persist_schedules(schedules, scheduleFile, w)
  /\ api' = Returned(api.op, api.id, IF w = "ok" THEN "Ok" ELSE "Failed to write schedules")
  /\ UNCHANGED <<schedules, now>>
  /\ UNCHANGED <<execVars, instVars, diskVars>>
  /\ UNCHANGED <<supVars, certVars, nodeVars>>

(* The RPC response has been sent; the next request may arrive. *)
api_respond ==
  /\ api.pc = "returned"
  /\ api' = ApiIdle
  /\ UNCHANGED <<schedules, scheduleFile, now>>
  /\ UNCHANGED <<execVars, instVars, diskVars>>
  /\ UNCHANGED <<supVars, certVars, nodeVars>>

(* The wall clock advances. *)
Advance ==
  /\ now < MaxTime
  /\ now' = now + 1
  /\ UNCHANGED <<schedules, scheduleFile, api>>
  /\ UNCHANGED <<execVars, instVars, diskVars>>
  /\ UNCHANGED <<supVars, certVars, nodeVars>>

(***************************************************************************)
(* Schedule executor                                                       *)
(***************************************************************************)
(* get_inactive_partition: get_active_partition either yields the booted   *)
(* partition or fails (unreadable /proc/cmdline, unparsable device path).  *)
get_inactive_partition(ok) ==
  IF ok THEN Some(OtherSlot(active)) ELSE None

Log(log, id, step, ok) == [log EXCEPT ![id] = Append(@, [step |-> step, ok |-> ok])]

(* schedule_executor: the sleep ends and get_due_schedules takes its       *)
(* snapshot, in the order the HashMap yields it.                           *)
executor_tick ==
  /\ execPc = "sleep"
  /\ get_due_schedules(schedules, now) # {}
  /\ \E order \in Orders(get_due_schedules(schedules, now)) :
       batch' = [i \in 1..Len(order) |-> schedules[order[i]]]
  /\ tickAt' = now
  /\ execPc' = "loop"
  /\ UNCHANGED <<cur, execTarget, execFlash, execErr, runlog, finished>>
  /\ UNCHANGED <<schedVars, instVars, diskVars>>
  /\ UNCHANGED <<supVars, certVars, nodeVars>>

(* schedule_executor: the next snapshot of the batch is marked Running     *)
(* (update_status under the write lock).                                   *)
executor_mark_running ==
  /\ execPc = "loop"
  /\ batch # <<>>
  /\ cur' = Some(Head(batch))
  /\ batch' = Tail(batch)
  /\ schedules' = update_status(schedules, Head(batch).id, "Running", None, now)
  /\ execPc' = "persist_running"
  /\ UNCHANGED <<execTarget, execFlash, execErr, runlog, tickAt, finished>>
  /\ UNCHANGED <<scheduleFile, now, api>>
  /\ UNCHANGED <<instVars, diskVars>>
  /\ UNCHANGED <<supVars, certVars, nodeVars>>

(* update_status(Running): persist_schedules; its result is dropped. *)
executor_persist_running(w) ==
  /\ execPc = "persist_running"
  /\ scheduleFile' = persist_schedules(schedules, scheduleFile, w)
  /\ execPc' = "prepare"
  /\ UNCHANGED <<batch, cur, execTarget, execFlash, execErr, runlog, tickAt, finished>>
  /\ UNCHANGED <<schedules, now, api>>
  /\ UNCHANGED <<instVars, diskVars>>
  /\ UNCHANGED <<supVars, certVars, nodeVars>>

(* execute_scheduled_update: get_inactive_partition, then the pre-update   *)
(* hook.                                                                   *)
execute_prepare(partOk, outcome) ==
  /\ execPc = "prepare"
  /\ LET job == Unwrap(cur)
         inactive == get_inactive_partition(partOk)
         hook == execute_hook(Unwrap(job.pre_update_hook), outcome)
     IN IF ~IsSome(inactive)
          THEN /\ execErr' = Some("partition error")
               /\ execPc' = "mark_final"
               /\ UNCHANGED <<execTarget, runlog>>
          ELSE /\ execTarget' = inactive
               /\ IF IsSome(job.pre_update_hook)
                    THEN /\ runlog' = Log(runlog, job.id, "pre_hook", hook.ok)
                         /\ execErr' = IF hook.ok THEN None ELSE Some(hook.err)
                         /\ execPc' = IF hook.ok THEN "flash_open" ELSE "mark_final"
                    ELSE /\ execPc' = "flash_open"
                         /\ UNCHANGED <<runlog, execErr>>
  /\ UNCHANGED <<batch, cur, execFlash, tickAt, finished>>
  /\ UNCHANGED <<schedVars, instVars, diskVars>>
  /\ UNCHANGED <<supVars, certVars, nodeVars>>

(* execute_scheduled_update: flash_image requests the image and opens the  *)
(* target device.                                                          *)
execute_flash_open(env) ==
  /\ execPc = "flash_open"
  /\ LET job == Unwrap(cur)
         res == flash_open(env)
     IN IF res.ok
          THEN /\ execPc' = "flash_write"
               /\ UNCHANGED <<runlog, execErr>>
          ELSE /\ runlog' = Log(runlog, job.id, "flash", FALSE)
               /\ execErr' = Some(res.err)
               /\ execPc' = "mark_final"
  /\ UNCHANGED <<batch, cur, execTarget, execFlash, tickAt, finished>>
  /\ UNCHANGED <<schedVars, instVars, diskVars>>
  /\ UNCHANGED <<supVars, certVars, nodeVars>>

(* execute_scheduled_update: flash_image streams the chunks to the device, *)
(* flushes, syncs and verifies the digest.                                 *)
execute_flash_write(env) ==
  /\ execPc = "flash_write"
  /\ flash_open(env).ok
  /\ LET job == Unwrap(cur)
         res == flash_write(env, job.expected_sha256)
     IN /\ device' = device_after(env, res)
        /\ execFlash' = Some(res)
        /\ runlog' = Log(runlog, job.id, "flash", res.ok)
        /\ execErr' = IF res.ok THEN None ELSE Some(res.err)
        /\ execPc' = IF res.ok THEN "finish" ELSE "mark_final"
  /\ UNCHANGED <<batch, cur, execTarget, tickAt, finished>>
  /\ UNCHANGED <<active, bootAttr, bootNext, rollbackFile>>
  /\ UNCHANGED <<schedVars, instVars>>
  /\ UNCHANGED <<supVars, certVars, nodeVars>>

(* execute_scheduled_update after flash_image: the post-update hook, then  *)
(* switch_boot_partition.                                                  *)
execute_finish(outcome, env) ==
  /\ execPc = "finish"
  /\ LET job == Unwrap(cur)
         hook == execute_hook(Unwrap(job.post_update_hook), outcome)
         sw == switch_boot_partition(Unwrap(execTarget), env, bootAttr, bootNext)
         afterHook == IF IsSome(job.post_update_hook)
                        THEN Log(runlog, job.id, "post_hook", hook.ok)
                        ELSE runlog
     IN IF IsSome(job.post_update_hook) /\ ~hook.ok
          THEN /\ runlog' = afterHook
               /\ execErr' = Some(hook.err)
               /\ UNCHANGED <<bootAttr, bootNext>>
          ELSE /\ runlog' = Log(afterHook, job.id, "switch_boot", sw.ok)
               /\ bootAttr' = sw.attrs
               /\ bootNext' = sw.marker
               /\ execErr' = IF sw.ok THEN None ELSE Some(sw.err)
  /\ execPc' = "mark_final"
  /\ UNCHANGED <<batch, cur, execTarget, execFlash, tickAt, finished>>
  /\ UNCHANGED <<active, rollbackFile, device>>
  /\ UNCHANGED <<schedVars, instVars>>
  /\ UNCHANGED <<supVars, certVars, nodeVars>>

(* Mutation of executor_mark_final: the result of the run is not looked at. *)
executor_mark_final_always_completed ==
  /\ execPc = "mark_final"
  /\ schedules' = update_status(schedules, Unwrap(cur).id, "Completed", None, now)
  /\ execPc' = "persist_final"
  /\ UNCHANGED <<batch, cur, execTarget, execFlash, execErr, runlog, tickAt, finished>>
  /\ UNCHANGED <<scheduleFile, now, api>>
  /\ UNCHANGED <<instVars, diskVars>>
  /\ UNCHANGED <<supVars, certVars, nodeVars>>

(* schedule_executor: update_status(Completed) or update_status(Failed,    *)
(* message) under the write lock.                                          *)
executor_mark_final ==
  /\ execPc = "mark_final"
  /\ schedules' = IF IsSome(execErr)
                    THEN update_status(schedules, Unwrap(cur).id, "Failed", execErr, now)
                    ELSE update_status(schedules, Unwrap(cur).id, "Completed", None, now)
  /\ execPc' = "persist_final"
  /\ UNCHANGED <<batch, cur, execTarget, execFlash, execErr, runlog, tickAt, finished>>
  /\ UNCHANGED <<scheduleFile, now, api>>
  /\ UNCHANGED <<instVars, diskVars>>
  /\ UNCHANGED <<supVars, certVars, nodeVars>>

(* The persist_schedules of the last update_status; the executor then      *)
(* goes on with the batch or back to sleep.                                *)
executor_persist_final(w) ==
  /\ execPc = "persist_final"
  /\ scheduleFile' = persist_schedules(schedules, scheduleFile, w)
  /\ finished' = finished \cup {Unwrap(cur).id}
  /\ cur' = None
  /\ execTarget' = None
  /\ execFlash' = None
  /\ execErr' = None
  /\ execPc' = IF batch = <<>> THEN "sleep" ELSE "loop"
  /\ tickAt' = IF batch = <<>> THEN 0 ELSE tickAt
  /\ UNCHANGED <<batch, runlog>>
  /\ UNCHANGED <<schedules, now, api>>
  /\ UNCHANGED <<instVars, diskVars>>
  /\ UNCHANGED <<supVars, certVars, nodeVars>>

(***************************************************************************)
(* InstallUpdate stream                                                    *)
(***************************************************************************)
InstallDigests == {"", "ab", "AB"}

InstIdle == [pc |-> "idle", expected_sha256 |-> None, target |-> None, flash |-> None,
             switch |-> None]

(* install_update: the request is unpacked and the target partition        *)
(* identified.                                                             *)
install_update(digest, partOk) ==
  /\ inst.pc \in {"idle", "completed", "error"}
  /\ installs < MaxInstalls
  /\ installs' = installs + 1
  /\ LET inactive == get_inactive_partition(partOk)
     IN inst' = [InstIdle EXCEPT !.pc = IF IsSome(inactive) THEN "flash_open" ELSE "error",
                                 !.expected_sha256 = NonEmpty(digest),
                                 !.target = inactive]
  /\ UNCHANGED <<schedVars, execVars, diskVars>>
  /\ UNCHANGED <<supVars, certVars, nodeVars>>

(* install_update: flash_image requests the image and opens the device. *)
install_flash_open(env) ==
  /\ inst.pc = "flash_open"
  /\ inst' = [inst EXCEPT !.pc = IF flash_open(env).ok THEN "flash_write" ELSE "error"]
  /\ UNCHANGED installs
  /\ UNCHANGED <<schedVars, execVars, diskVars>>
  /\ UNCHANGED <<supVars, certVars, nodeVars>>

(* install_update: flash_image streams, flushes, syncs and verifies. *)
install_flash_write(env) ==
  /\ inst.pc = "flash_write"
  /\ flash_open(env).ok
  /\ LET res == flash_write(env, inst.expected_sha256)
     IN /\ device' = device_after(env, res)
        /\ inst' = [inst EXCEPT !.pc = IF res.ok THEN "switch" ELSE "error",
                                !.flash = Some(res)]
  /\ UNCHANGED installs
  /\ UNCHANGED <<active, bootAttr, bootNext, rollbackFile>>
  /\ UNCHANGED <<schedVars, execVars>>
  /\ UNCHANGED <<supVars, certVars, nodeVars>>

(* install_update: switch_boot_partition and the last progress message. *)
install_switch(env) ==
  /\ inst.pc = "switch"
  /\ LET sw == switch_boot_partition(Unwrap(inst.target), env, bootAttr, bootNext)
     IN /\ bootAttr' = sw.attrs
        /\ bootNext' = sw.marker
        /\ inst' = [inst EXCEPT !.pc = IF sw.ok THEN "completed" ELSE "error",
                                !.switch = Some(sw.ok)]
  /\ UNCHANGED installs
  /\ UNCHANGED <<active, rollbackFile, device>>
  /\ UNCHANGED <<schedVars, execVars>>
  /\ UNCHANGED <<supVars, certVars, nodeVars>>

(***************************************************************************)
(* Rollback: the engine's operation, the supervisor and the RPCs           *)
(***************************************************************************)
DefaultRollbackState == [previous_partition |-> None, boot_counter |-> 0]

(* load_rollback_state: a missing or unparsable file is the default state. *)
load_rollback_state(file) == IF file.state = "ok" THEN file.record ELSE DefaultRollbackState

(* save_rollback_state: create_dir_all and fs::write succeed or fail. *)
save_rollback_state(state, file, w) ==
  IF w = "ok" THEN [state |-> "ok", record |-> state] ELSE file

(* get_boot_counter *)
get_boot_counter(file) == load_rollback_state(file).boot_counter

(* is_boot_loop: MAX_BOOT_ATTEMPTS and the comparison with the counter. *)
MAX_BOOT_ATTEMPTS == 3
is_boot_loop(file) == get_boot_counter(file) >= MAX_BOOT_ATTEMPTS


(* Mutation of rollback_to_previous_partition: the record is saved as it   *)
(* was loaded.                                                             *)
rollback_to_previous_partition_keeps_record(file, attrs, marker, env, w) ==
  LET state == load_rollback_state(file)
      previous_index == state.previous_partition
      sw == switch_boot_partition(Unwrap(previous_index), env, attrs, marker)
  IN IF ~IsSome(previous_index)
       THEN [result |-> "No previous partition recorded for rollback", target |-> None,
             switched |-> FALSE, attrs |-> attrs, marker |-> marker, file |-> file]
       ELSE IF ~sw.ok
         THEN [result |-> sw.err, target |-> previous_index, switched |-> FALSE,
               attrs |-> sw.attrs, marker |-> sw.marker, file |-> file]
         ELSE [result |-> IF w = "ok" THEN "Ok" ELSE "io error", target |-> previous_index,
               switched |-> TRUE, attrs |-> sw.attrs, marker |-> sw.marker,
               file |-> save_rollback_state(state, file, w)]

(* rollback_to_previous_partition: its result, the partition it handed to  *)
(* switch_boot_partition (None: not invoked), and the boot attributes,     *)
(* marker and rollback state file afterwards.                              *)
rollback_to_previous_partition(file, attrs, marker, env, w) ==
  LET state == load_rollback_state(file)
      previous_index == state.previous_partition
      sw == switch_boot_partition(Unwrap(previous_index), env, attrs, marker)
      cleared == [load_rollback_state(file) EXCEPT !.previous_partition = None,
                                                    !.boot_counter = 0]
  IN IF ~IsSome(previous_index)
       THEN [result |-> "No previous partition recorded for rollback", target |-> None,
             switched |-> FALSE, attrs |-> attrs, marker |-> marker, file |-> file]
       ELSE IF ~sw.ok
         THEN [result |-> sw.err, target |-> previous_index, switched |-> FALSE,
               attrs |-> sw.attrs, marker |-> sw.marker, file |-> file]
         ELSE [result |-> IF w = "ok" THEN "Ok" ELSE "io error", target |-> previous_index,
               switched |-> TRUE, attrs |-> sw.attrs, marker |-> sw.marker,
               file |-> save_rollback_state(cleared, file, w)]

(* The default checks of HealthChecker::new and what a check may return. *)
Checks == {"boot", "network", "api"}

HealthCheckResults == {"Pass", "Fail", "Unknown"}

(* HealthCheck::is_critical: true unless overridden (NetworkCheck). *)
is_critical(name) == name # "network"

(* HealthChecker::run_all_checks: the overall status. *)
run_all_checks(results) ==
  LET critical_failures == Cardinality({c \in Checks : results[c] = "Fail" /\ is_critical(c)})
      non_critical_failures == Cardinality({c \in Checks : results[c] = "Fail" /\ ~is_critical(c)})
  IN IF critical_failures > 0 THEN "Unhealthy"
     ELSE IF non_critical_failures > 0 THEN "Degraded"
     ELSE "Healthy"

(* UpdateScheduler::register_rollback: the job table afterwards. *)
register_rollback(table, reason) == table

(* get_rollback_history: one event per job with rollback_triggered.  The   *)
(* timestamp of a job without completed_at is the empty string (-1 here).  *)
rollback_events(table) ==
  LET triggered == SelectSeq(table, LAMBDA s : s.rollback_triggered)
  IN [i \in 1..Len(triggered) |->
       [timestamp |-> IF IsSome(triggered[i].completed_at)
                        THEN Unwrap(triggered[i].completed_at) ELSE -1,
        reason |-> IF IsSome(triggered[i].rollback_reason)
                     THEN Unwrap(triggered[i].rollback_reason) ELSE "Unknown",
        from_partition |-> "unknown",
        to_partition |-> "unknown",
        automatic |-> triggered[i].enable_auto_rollback]]

NoRollbackCall == [result |-> "", target |-> None, switched |-> FALSE]

(* Mutation of supervisor_check: anything but Healthy leads to a rollback. *)
supervisor_check_unless_healthy(results) ==
  /\ supPc = "grace"
  /\ health' = Some(run_all_checks(results))
  /\ supPc' = IF run_all_checks(results) # "Healthy" THEN "register" ELSE "stable"
  /\ UNCHANGED <<supCalls, supResult, rb, history, autoRolledBack, boots>>
  /\ UNCHANGED <<schedVars, execVars, instVars, diskVars, certVars, nodeVars>>

(* start_rollback_supervisor: the grace period ends and the checks run. *)
supervisor_check(results) ==
  /\ supPc = "grace"
  /\ health' = Some(run_all_checks(results))
  /\ supPc' = IF run_all_checks(results) = "Unhealthy" THEN "register" ELSE "stable"
  /\ UNCHANGED <<supCalls, supResult, rb, history, autoRolledBack, boots>>
  /\ UNCHANGED <<schedVars, execVars, instVars, diskVars, certVars, nodeVars>>

(* start_rollback_supervisor: register_rollback, whose result only decides *)
(* a log line.                                                             *)
supervisor_register ==
  /\ supPc = "register"
  /\ schedules' = register_rollback(schedules, "Critical health failure at boot")
  /\ supPc' = "rollback"
  /\ UNCHANGED <<health, supCalls, supResult, rb, history, autoRolledBack, boots>>
  /\ UNCHANGED <<scheduleFile, now, api>>
  /\ UNCHANGED <<execVars, instVars, diskVars, certVars, nodeVars>>

(* start_rollback_supervisor: rollback_to_previous_partition, then the     *)
(* reboot command on success (its exit status is dropped).                 *)
supervisor_rollback(env, w) ==
  /\ supPc = "rollback"
  /\ LET r == rollback_to_previous_partition(rollbackFile, bootAttr, bootNext, env, w)
     IN /\ bootAttr' = r.attrs
        /\ bootNext' = r.marker
        /\ rollbackFile' = r.file
        /\ rb' = [result |-> r.result, target |-> r.target, switched |-> r.switched]
        /\ supResult' = Some(r.result)
        /\ supPc' = IF r.result = "Ok" THEN "reboot" ELSE "gave_up"
        /\ autoRolledBack' = (autoRolledBack \/ r.result = "Ok")
  /\ supCalls' = supCalls + 1
  /\ history' = None
  /\ UNCHANGED <<health, boots>>
  /\ UNCHANGED <<active, device>>
  /\ UNCHANGED <<schedVars, execVars, instVars, certVars, nodeVars>>

(* TriggerRollback RPC: rollback_to_previous_partition; the response       *)
(* carries its result.                                                     *)
trigger_rollback(env, w) ==
  /\ LET r == rollback_to_previous_partition(rollbackFile, bootAttr, bootNext, env, w)
     IN /\ bootAttr' = r.attrs
        /\ bootNext' = r.marker
        /\ rollbackFile' = r.file
        /\ rb' = [result |-> r.result, target |-> r.target, switched |-> r.switched]
  /\ history' = None
  /\ UNCHANGED <<supPc, health, supCalls, supResult, autoRolledBack, boots>>
  /\ UNCHANGED <<active, device>>
  /\ UNCHANGED <<schedVars, execVars, instVars, certVars, nodeVars>>

(* GetRollbackHistory RPC. *)
get_rollback_history ==
  /\ history' = Some(rollback_events(schedules))
  /\ UNCHANGED <<supPc, health, supCalls, supResult, rb, autoRolledBack, boots>>
  /\ UNCHANGED <<schedVars, execVars, instVars, diskVars, certVars, nodeVars>>

(* The node reboots and the agent starts again: the firmware boots a       *)
(* partition carrying the boot attribute, UpdateScheduler::new loads the   *)
(* schedule file, the tasks start from the top.                            *)
system_reboot ==
  /\ boots < MaxReboots
  /\ boots' = boots + 1
  /\ active' \in (IF bootAttr # {} THEN bootAttr ELSE Slots)
  /\ bootNext' = None
  /\ schedules' = load_schedules(scheduleFile)
  /\ api' = ApiIdle
  /\ execPc' = "sleep"
  /\ batch' = <<>>
  /\ cur' = None
  /\ execTarget' = None
  /\ execFlash' = None
  /\ execErr' = None
  /\ inst' = InstIdle
  /\ supPc' = "grace"
  /\ health' = None
  /\ supCalls' = 0
  /\ supResult' = None
  /\ rb' = NoRollbackCall
  /\ history' = None
  /\ UNCHANGED <<scheduleFile, now, runlog, tickAt, finished, installs, bootAttr, rollbackFile,
                 device, autoRolledBack>>
  /\ UNCHANGED <<certVars, nodeVars>>

InitSupervisor ==
  /\ supPc = "grace"
  /\ health = None
  /\ supCalls = 0
  /\ supResult = None
  /\ rb = NoRollbackCall
  /\ history = None
  /\ autoRolledBack = FALSE
  /\ boots = 0

(***************************************************************************)
(* Certificate rotation and renewal                                        *)
(***************************************************************************)
(* What a new certificate PEM may be. *)
PemKinds == {"valid", "expired", "garbage"}

(* check_expiry(pem, 0) as rotate_certificate uses it: an error only when  *)
(* the PEM or the X.509 structure does not parse.                          *)
check_expiry(pem) ==
  [ok |-> pem # "garbage", is_expiring_soon |-> pem = "expired"]

RotIdle == [pc |-> "idle", op |-> "", leaf |-> 0, pem |-> "valid", result |-> ""]

RotDone(result) == [RotIdle EXCEPT !.pc = "done", !.op = rot.op, !.leaf = rot.leaf,
                                   !.pem = rot.pem, !.result = result]

RdIdle == [pc |-> "idle", cert |-> 0, key |-> 0]

othersButCerts == <<schedVars, execVars, instVars, diskVars, supVars, nodeVars>>

(* rotate_certificate: fs::write of the temporary certificate. *)
rotate_write_temp_cert(pem, w) ==
  /\ rot.pc = "idle"
  /\ issued < MaxLeaves
  /\ issued' = issued + 1
  /\ IF w = "ok"
       THEN /\ tempCert' = issued + 1
            /\ rot' = [RotIdle EXCEPT !.pc = "temp_key", !.op = "rotate", !.leaf = issued + 1,
                                      !.pem = pem]
       ELSE /\ rot' = [RotIdle EXCEPT !.pc = "done", !.op = "rotate", !.leaf = issued + 1,
                                      !.pem = pem, !.result = "Io"]
            /\ UNCHANGED tempCert
  /\ UNCHANGED <<certFile, keyFile, tempKey, certBackup, keyBackup, rd>>
  /\ UNCHANGED othersButCerts

(* rotate_certificate: fs::write of the temporary key, then check_expiry   *)
(* of the new certificate.                                                 *)
rotate_write_temp_key(w) ==
  /\ rot.pc = "temp_key"
  /\ IF w = "ok"
       THEN /\ tempKey' = rot.leaf
            /\ rot' = IF check_expiry(rot.pem).ok
                        THEN [rot EXCEPT !.pc = "rename_cert"]
                        ELSE RotDone("Parse")
       ELSE /\ rot' = RotDone("Io")
            /\ UNCHANGED tempKey
  /\ UNCHANGED <<certFile, keyFile, tempCert, certBackup, keyBackup, issued, rd>>
  /\ UNCHANGED othersButCerts

(* rotate_certificate: fs::rename of the temporary certificate. *)
rotate_rename_cert(ok) ==
  /\ rot.pc = "rename_cert"
  /\ IF ok
       THEN /\ certFile' = tempCert
            /\ tempCert' = 0
            /\ rot' = [rot EXCEPT !.pc = "rename_key"]
       ELSE /\ rot' = RotDone("Io")
            /\ UNCHANGED <<certFile, tempCert>>
  /\ UNCHANGED <<keyFile, tempKey, certBackup, keyBackup, issued, rd>>
  /\ UNCHANGED othersButCerts

(* rotate_certificate: fs::rename of the temporary key, and the return. *)
rotate_rename_key(ok) ==
  /\ rot.pc = "rename_key"
  /\ IF ok
       THEN /\ keyFile' = tempKey
            /\ tempKey' = 0
            /\ rot' = RotDone("Ok")
       ELSE /\ rot' = RotDone("Io")
            /\ UNCHANGED <<keyFile, tempKey>>
  /\ UNCHANGED <<certFile, tempCert, certBackup, keyBackup, issued, rd>>
  /\ UNCHANGED othersButCerts

(* trigger_renewal: the Kubernetes checks and request_certificate. *)
renew_request(got) ==
  /\ rot.pc = "idle"
  /\ issued < MaxLeaves
  /\ IF got
       THEN /\ issued' = issued + 1
            /\ rot' = [RotIdle EXCEPT !.pc = "backup", !.op = "renew", !.leaf = issued + 1]
       ELSE /\ rot' = [RotIdle EXCEPT !.pc = "done", !.op = "renew",
                                      !.result = "Failed to request certificate"]
            /\ UNCHANGED issued
  /\ UNCHANGED <<certFile, keyFile, tempCert, tempKey, certBackup, keyBackup, rd>>
  /\ UNCHANGED othersButCerts

(* trigger_renewal: the backup copies, each best effort. *)
renew_backup(okCert, okKey) ==
  /\ rot.pc = "backup"
  /\ certBackup' = IF certFile # 0 /\ okCert THEN certFile ELSE certBackup
  /\ keyBackup' = IF certFile # 0 /\ keyFile # 0 /\ okKey THEN keyFile ELSE keyBackup
  /\ rot' = [rot EXCEPT !.pc = "write_cert"]
  /\ UNCHANGED <<certFile, keyFile, tempCert, tempKey, issued, rd>>
  /\ UNCHANGED othersButCerts

(* trigger_renewal: fs::write of the certificate to its canonical path. *)
renew_write_cert(w) ==
  /\ rot.pc = "write_cert"
  /\ IF w = "ok"
       THEN /\ certFile' = rot.leaf
            /\ rot' = [rot EXCEPT !.pc = "write_key"]
       ELSE /\ rot' = RotDone("Failed to write new certificate")
            /\ UNCHANGED certFile
  /\ UNCHANGED <<keyFile, tempCert, tempKey, certBackup, keyBackup, issued, rd>>
  /\ UNCHANGED othersButCerts

(* trigger_renewal: fs::write of the key to its canonical path, and the    *)
(* return.                                                                 *)
renew_write_key(w) ==
  /\ rot.pc = "write_key"
  /\ IF w = "ok"
       THEN /\ keyFile' = rot.leaf
            /\ rot' = RotDone("Ok")
       ELSE /\ rot' = RotDone("Failed to write new key")
            /\ UNCHANGED keyFile
  /\ UNCHANGED <<certFile, tempCert, tempKey, certBackup, keyBackup, issued, rd>>
  /\ UNCHANGED othersButCerts

(* The caller has the result of the rotation or renewal. *)
rot_return ==
  /\ rot.pc = "done"
  /\ rot' = RotIdle
  /\ UNCHANGED <<certFile, keyFile, tempCert, tempKey, certBackup, keyBackup, issued, rd>>
  /\ UNCHANGED othersButCerts

(* The transport setup (start of the agent, reload) reads the certificate  *)
(* file when it exists.                                                    *)
reader_read_cert ==
  /\ rd.pc \in {"idle", "loaded", "error"}
  /\ certFile # 0
  /\ rd' = [RdIdle EXCEPT !.pc = "key", !.cert = certFile]
  /\ UNCHANGED <<certFile, keyFile, tempCert, tempKey, certBackup, keyBackup, rot, issued>>
  /\ UNCHANGED othersButCerts

(* The transport setup reads the key file and builds the identity. *)
reader_read_key ==
  /\ rd.pc = "key"
  /\ rd' = IF keyFile # 0
             THEN [rd EXCEPT !.pc = "loaded", !.key = keyFile]
             ELSE [rd EXCEPT !.pc = "error"]
  /\ UNCHANGED <<certFile, keyFile, tempCert, tempKey, certBackup, keyBackup, rot, issued>>
  /\ UNCHANGED othersButCerts

(* The pair of leaf 1 is installed; nothing is being replaced or read. *)
InitCerts ==
  /\ certFile = 1
  /\ keyFile = 1
  /\ tempCert = 0
  /\ tempKey = 0
  /\ certBackup = 0
  /\ keyBackup = 0
  /\ rot = RotIdle
  /\ issued = 1
  /\ rd = RdIdle

(***************************************************************************)
(* keel-agent: transport setup and Kubernetes bootstrap                    *)
(***************************************************************************)
(* bootstrap::is_bootstrapped: the kubelet kubeconfig exists. *)
bootstrap_is_bootstrapped == kubeconfigFile

(* BootstrapConfig::is_bootstrapped: the bootstrap state file exists. *)
BootstrapConfig_is_bootstrapped == bootstrapStateFile

(* The certificate authorities, and what a client presents: a leaf         *)
(* chaining to one of them, a leaf of an unknown CA, or no certificate.    *)
CAs == {"bootstrap", "k8s"}

Clients == CAs \cup {"rogue", "none"}

NoTls == [mode |-> "unset", roots |-> {}, leaf |-> FALSE, cas |-> {}]

NoRpc == [rpc |-> "", client |-> "none", result |-> ""]

BkIdle == [pc |-> "idle", result |-> ""]

(* main, mTLS setup: the ServerTlsConfig built from the files present.     *)
(* leaf: server.pem exists; joined: is_bootstrapped(); cas: the CA files   *)
(* that exist.                                                             *)
tls_config(leaf, joined, cas) ==
  IF ~leaf
    THEN [mode |-> "plaintext", roots |-> {}, leaf |-> leaf, cas |-> cas]
    ELSE IF joined /\ "k8s" \in cas
      THEN [mode |-> "mtls", roots |-> {"k8s"}, leaf |-> leaf, cas |-> cas]
      ELSE IF "bootstrap" \in cas
        THEN [mode |-> "mtls", roots |-> {"bootstrap"}, leaf |-> leaf, cas |-> cas]
        ELSE [mode |-> "plaintext", roots |-> {}, leaf |-> leaf, cas |-> cas]

(* The CA files on disk. *)
ca_files == (IF bootstrapCa THEN {"bootstrap"} ELSE {}) \cup (IF k8sCa THEN {"k8s"} ELSE {})

(* What request_server_certificate may come to: an error before anything   *)
(* is written, or save_server_certificate failing after the key, after the *)
(* certificate, or not at all.                                             *)
CertRequestOutcomes == {"error", "key_written", "cert_written", "ok"}

(* main: request_server_certificate when the node is bootstrapped; its     *)
(* error is only logged.                                                   *)
agent_request_server_certificate(outcome) ==
  /\ agentPc = "start"
  /\ agentPc' = "tls"
  /\ IF bootstrap_is_bootstrapped /\ certFile = 0 /\ outcome # "error" /\ issued < MaxLeaves
       THEN /\ issued' = issued + 1
            /\ keyFile' = issued + 1
            /\ certFile' = IF outcome \in {"cert_written", "ok"} THEN issued + 1 ELSE certFile
            /\ k8sCa' = (k8sCa \/ outcome = "ok")
       ELSE UNCHANGED <<issued, keyFile, certFile, k8sCa>>
  /\ UNCHANGED <<tempCert, tempKey, certBackup, keyBackup, rot, rd>>
  /\ UNCHANGED <<bootstrapCa, kubeconfigFile, bootstrapStateFile, restartSignal, tls, lastRpc, bk>>
  /\ UNCHANGED <<schedVars, execVars, instVars, diskVars, supVars, initVars, moreVars>>

(* main, mTLS setup: the files are read (an error ends main) and the       *)
(* server is built with or without a TLS configuration.                    *)
agent_tls_setup(readable) ==
  /\ agentPc = "tls"
  /\ IF certFile # 0 /\ (keyFile = 0 \/ ~readable)
       THEN /\ agentPc' = "exited"
            /\ tls' = [NoTls EXCEPT !.mode = "failed"]
       ELSE /\ agentPc' = "serving"
            /\ tls' = tls_config(certFile # 0, bootstrap_is_bootstrapped, ca_files)
  /\ lastRpc' = NoRpc
  /\ UNCHANGED <<bootstrapCa, k8sCa, kubeconfigFile, bootstrapStateFile, restartSignal, bk>>
  /\ UNCHANGED <<schedVars, execVars, instVars, diskVars, supVars, certVars, initVars, moreVars>>

(* The transport lets the client's request through to the service: always  *)
(* without TLS, and under mutual TLS when the client's leaf chains to a    *)
(* configured root.                                                        *)
Accepted(client) ==
  \/ tls.mode = "plaintext"
  \/ tls.mode = "mtls" /\ client \in tls.roots

(* GetBootstrapStatus RPC. *)
get_bootstrap_status(client) ==
  /\ agentPc = "serving"
  /\ lastRpc' = [rpc |-> "GetBootstrapStatus", client |-> client,
                 result |-> IF ~Accepted(client) THEN "rejected"
                            ELSE IF BootstrapConfig_is_bootstrapped THEN "is_bootstrapped"
                            ELSE "not_bootstrapped"]
  /\ UNCHANGED <<bootstrapCa, k8sCa, kubeconfigFile, bootstrapStateFile, restartSignal, agentPc, tls, bk>>
  /\ UNCHANGED <<schedVars, execVars, instVars, diskVars, supVars, certVars, initVars, moreVars>>

(* sign_bootstrap_csr: the serial number of the leaf built from the CSR   *)
(* is BigNum::from_u32(1), whatever the CSR.                               *)
sign_bootstrap_csr(client) == [serial |-> 1]

(* No leaf signed by the bootstrap CA yet. *)
InitSigned == signedLeaves = <<>>

(* SignBootstrapCertificate RPC: refused once the node is bootstrapped;    *)
(* otherwise sign_bootstrap_csr and get_bootstrap_ca succeed or fail; both *)
(* read the bootstrap CA from the crypto directory.                        *)
sign_bootstrap_certificate(client, signed) ==
  /\ agentPc = "serving"
  /\ signed => (bootstrapCa /\ Len(signedLeaves) < MaxLeaves)
  /\ lastRpc' = [rpc |-> "SignBootstrapCertificate", client |-> client,
                 result |-> IF ~Accepted(client) THEN "rejected"
                            ELSE IF bootstrap_is_bootstrapped THEN "Node already bootstrapped"
                            ELSE IF signed THEN "signed"
                            ELSE "Failed to sign CSR"]
  /\ signedLeaves' = IF lastRpc'.result = "signed"
                       THEN Append(signedLeaves, sign_bootstrap_csr(client))
                       ELSE signedLeaves
  /\ UNCHANGED <<bootstrapCa, k8sCa, kubeconfigFile, bootstrapStateFile, restartSignal, agentPc, tls, bk>>
  /\ UNCHANGED <<schedVars, execVars, instVars, diskVars, supVars, certVars, initVars, moreButSigned>>

(* BootstrapKubernetes RPC: validation of the request,                     *)
(* prepare_k8s_directories and the write of the CA certificate.            *)
bootstrap_kubernetes(client, valid, prepared) ==
  /\ agentPc = "serving"
  /\ bk.pc = "idle"
  /\ lastRpc' = [rpc |-> "BootstrapKubernetes", client |-> client,
                 result |-> IF Accepted(client) THEN "accepted" ELSE "rejected"]
  /\ bk' = IF ~Accepted(client) THEN bk
           ELSE IF ~valid THEN [pc |-> "returned", result |-> "invalid_argument"]
           ELSE IF ~prepared THEN [pc |-> "returned", result |-> "internal"]
           ELSE [pc |-> "write_kubeconfig", result |-> ""]
  /\ UNCHANGED <<bootstrapCa, k8sCa, kubeconfigFile, bootstrapStateFile, restartSignal, agentPc, tls>>
  /\ UNCHANGED <<schedVars, execVars, instVars, diskVars, supVars, certVars, initVars, moreVars>>

(* bootstrap_kubernetes: the kubeconfig is written. *)
bk_write_kubeconfig(w) ==
  /\ bk.pc = "write_kubeconfig"
  /\ kubeconfigFile' = (kubeconfigFile \/ w = "ok")
  /\ bk' = IF w = "ok" THEN [bk EXCEPT !.pc = "save_state"]
           ELSE [pc |-> "returned", result |-> "Failed to write kubeconfig"]
  /\ UNCHANGED <<bootstrapCa, k8sCa, bootstrapStateFile, restartSignal, agentPc, tls, lastRpc>>
  /\ UNCHANGED <<schedVars, execVars, instVars, diskVars, supVars, certVars, initVars, moreVars>>

(* bootstrap_kubernetes: BootstrapConfig::save. *)
bk_save_state(w) ==
  /\ bk.pc = "save_state"
  /\ bootstrapStateFile' = (bootstrapStateFile \/ w = "ok")
  /\ bk' = IF w = "ok" THEN [bk EXCEPT !.pc = "signal"]
           ELSE [pc |-> "returned", result |-> "Failed to save bootstrap state"]
  /\ UNCHANGED <<bootstrapCa, k8sCa, kubeconfigFile, restartSignal, agentPc, tls, lastRpc>>
  /\ UNCHANGED <<schedVars, execVars, instVars, diskVars, supVars, certVars, initVars, moreVars>>

(* bootstrap_kubernetes: the kubelet restart signal is written and the     *)
(* response built.                                                         *)
bk_signal(w) ==
  /\ bk.pc = "signal"
  /\ restartSignal' = (restartSignal \/ w = "ok")
  /\ bk' = [pc |-> "returned",
            result |-> IF w = "ok" THEN "Ok" ELSE "Failed to create restart signal"]
  /\ UNCHANGED <<bootstrapCa, k8sCa, kubeconfigFile, bootstrapStateFile, agentPc, tls, lastRpc>>
  /\ UNCHANGED <<schedVars, execVars, instVars, diskVars, supVars, certVars, initVars, moreVars>>

(* The BootstrapKubernetes response has been sent. *)
bk_respond ==
  /\ bk.pc = "returned"
  /\ bk' = BkIdle
  /\ UNCHANGED <<bootstrapCa, k8sCa, kubeconfigFile, bootstrapStateFile, restartSignal, agentPc, tls,
                 lastRpc>>
  /\ UNCHANGED <<schedVars, execVars, instVars, diskVars, supVars, certVars, initVars, moreVars>>

(* A node before it joins: the bootstrap CA is in place, the agent serves  *)
(* under mutual TLS with it.                                               *)
InitBoot ==
  /\ bootstrapCa = TRUE
  /\ k8sCa = FALSE
  /\ kubeconfigFile = FALSE
  /\ bootstrapStateFile = FALSE
  /\ restartSignal = FALSE
  /\ agentPc = "serving"
  /\ tls = tls_config(TRUE, FALSE, {"bootstrap"})
  /\ lastRpc = NoRpc
  /\ bk = BkIdle

(***************************************************************************)
(* keel-init (PID 1): supervision of containerd, keel-agent and kubelet    *)
(***************************************************************************)
Services == {"containerd", "agent", "kubelet"}

(* A child as supervise_services holds it: the Option<Child> is Some       *)
(* (handle), and the process it names is running, has exited and waits to  *)
(* be collected (zombie), or has been collected by waitpid(-1) (reaped).   *)
ProcStates == {"none", "running", "zombie", "reaped"}

NoChild == [handle |-> FALSE, proc |-> "none"]

(* spawn_service: None when the binary is missing or the spawn fails. *)
spawn_service(ok) == IF ok THEN [handle |-> TRUE, proc |-> "running"] ELSE NoChild

(* Child::try_wait: Ok(Some(status)) only for a child that has exited and  *)
(* has not been collected; Ok(None) while it runs; Err(ECHILD) once        *)
(* waitpid(-1) has collected it.                                           *)
try_wait(child) ==
  CASE child.proc = "zombie"  -> "Ok(Some)"
    [] child.proc = "running" -> "Ok(None)"
    [] OTHER                  -> "Err"

(* reap_zombies: waitpid(-1, WNOHANG) until no exited child is left. *)
reap_zombies(child) == IF child.proc = "zombie" THEN [child EXCEPT !.proc = "reaped"] ELSE child

max_restart_delay_secs == 60

RECURSIVE Pow2(_)
Pow2(k) == IF k = 0 THEN 1 ELSE 2 * Pow2(k - 1)

Min(a, b) == IF a <= b THEN a ELSE b

(* 1u64 << n without overflow checks: the shift amount is n modulo 64.     *)
(* Powers above 2^30 are represented by 2^30, which is above               *)
(* max_restart_delay_secs as well.                                         *)
wrapping_shl(n) == Pow2(Min(n % 64, 30))

(* std::cmp::min(1u64 << agent_restart_count, max_restart_delay_secs) *)
backoff_delay(n) == Min(wrapping_shl(n), max_restart_delay_secs)

othersButInit == <<schedVars, execVars, instVars, diskVars, supVars, certVars, moreVars>>

agentFiles == <<bootstrapCa, k8sCa, kubeconfigFile, bootstrapStateFile, agentPc, tls, lastRpc, bk>>

(* run: umask, setup_filesystems, setup_cgroups, setup_networking and      *)
(* check_test_mode; a failing mount or command is logged.                  *)
init_run(mounted) ==
  /\ pid1 = "run"
  /\ pid1' = "start"
  /\ UNCHANGED <<containerd, agent, kubelet, agent_restart_count, delay, kubeletArgs, exits,
                 overflow_checks>>
  /\ UNCHANGED <<agentFiles, restartSignal, othersButInit>>

(* supervise_services: the three services are started. *)
init_start_services(okContainerd, okAgent, okKubelet) ==
  /\ pid1 = "start"
  /\ containerd' = spawn_service(okContainerd)
  /\ agent' = spawn_service(okAgent)
  /\ kubelet' = spawn_service(okKubelet)
  /\ kubeletArgs' = (okKubelet /\ kubeconfigFile)
  /\ pid1' = "reap"
  /\ UNCHANGED <<agent_restart_count, delay, exits, overflow_checks>>
  /\ UNCHANGED <<agentFiles, restartSignal, othersButInit>>

(* A running child exits. *)
child_exit(svc) ==
  /\ exits < MaxExits
  /\ exits' = exits + 1
  /\ CASE svc = "containerd" ->
            /\ containerd.proc = "running"
            /\ containerd' = [containerd EXCEPT !.proc = "zombie"]
            /\ UNCHANGED <<agent, kubelet>>
       [] svc = "agent" ->
            /\ agent.proc = "running"
            /\ agent' = [agent EXCEPT !.proc = "zombie"]
            /\ UNCHANGED <<containerd, kubelet>>
       [] OTHER ->
            /\ kubelet.proc = "running"
            /\ kubelet' = [kubelet EXCEPT !.proc = "zombie"]
            /\ UNCHANGED <<containerd, agent>>
  /\ UNCHANGED <<pid1, agent_restart_count, delay, kubeletArgs, overflow_checks>>
  /\ UNCHANGED <<agentFiles, restartSignal, othersButInit>>

(* Supervision loop: reap_zombies. *)
init_reap_zombies ==
  /\ pid1 = "reap"
  /\ containerd' = reap_zombies(containerd)
  /\ agent' = reap_zombies(agent)
  /\ kubelet' = reap_zombies(kubelet)
  /\ pid1' = "containerd"
  /\ UNCHANGED <<agent_restart_count, delay, kubeletArgs, exits, overflow_checks>>
  /\ UNCHANGED <<agentFiles, restartSignal, othersButInit>>

(* Supervision loop: the containerd check. *)
init_check_containerd(ok) ==
  /\ pid1 = "containerd"
  /\ containerd' = IF containerd.handle /\ try_wait(containerd) = "Ok(Some)"
                     THEN spawn_service(ok)
                     ELSE containerd
  /\ pid1' = "agent"
  /\ UNCHANGED <<agent, kubelet, agent_restart_count, delay, kubeletArgs, exits, overflow_checks>>
  /\ UNCHANGED <<agentFiles, restartSignal, othersButInit>>

(* Supervision loop: the keel-agent check up to the backoff sleep.  With   *)
(* overflow checks compiled in, a shift by 64 or more panics.              *)
init_check_agent ==
  /\ pid1 = "agent"
  /\ IF agent.handle /\ try_wait(agent) = "Ok(Some)"
       THEN IF overflow_checks /\ agent_restart_count >= 64
              THEN /\ pid1' = "panicked"
                   /\ UNCHANGED <<agent, delay>>
              ELSE /\ delay' = Some(backoff_delay(agent_restart_count))
                   /\ agent' = [agent EXCEPT !.proc = "reaped"]
                   /\ pid1' = "backoff"
       ELSE /\ pid1' = "kubelet"
            /\ UNCHANGED <<agent, delay>>
  /\ UNCHANGED <<containerd, kubelet, agent_restart_count, kubeletArgs, exits, overflow_checks>>
  /\ UNCHANGED <<agentFiles, restartSignal, othersButInit>>

(* Supervision loop: the backoff sleep is over, keel-agent is spawned. *)
init_respawn_agent(ok) ==
  /\ pid1 = "backoff"
  /\ agent' = spawn_service(ok)
  /\ agent_restart_count' = IF ok THEN agent_restart_count + 1 ELSE agent_restart_count
  /\ pid1' = "kubelet"
  /\ UNCHANGED <<containerd, kubelet, delay, kubeletArgs, exits, overflow_checks>>
  /\ UNCHANGED <<agentFiles, restartSignal, othersButInit>>

(* Mutation of init_check_kubelet: an exited kubelet is spawned again. *)
init_check_kubelet_respawns ==
  /\ pid1 = "kubelet"
  /\ kubelet' = IF kubelet.handle /\ try_wait(kubelet) = "Ok(Some)"
                  THEN spawn_service(TRUE)
                  ELSE kubelet
  /\ pid1' = "signal"
  /\ UNCHANGED <<containerd, agent, agent_restart_count, delay, kubeletArgs, exits, overflow_checks>>
  /\ UNCHANGED <<agentFiles, restartSignal, othersButInit>>

(* Supervision loop: the kubelet check. *)
init_check_kubelet ==
  /\ pid1 = "kubelet"
  /\ kubelet' = IF kubelet.handle /\ try_wait(kubelet) = "Ok(Some)" THEN NoChild ELSE kubelet
  /\ pid1' = "signal"
  /\ UNCHANGED <<containerd, agent, agent_restart_count, delay, kubeletArgs, exits, overflow_checks>>
  /\ UNCHANGED <<agentFiles, restartSignal, othersButInit>>

(* Mutation of init_check_restart_signal: the signal file is left in       *)
(* place and nothing is spawned.                                           *)
init_check_restart_signal_ignored(ok) ==
  /\ pid1 = "signal"
  /\ pid1' = "sleep"
  /\ UNCHANGED <<kubelet, kubeletArgs, restartSignal>>
  /\ UNCHANGED <<containerd, agent, agent_restart_count, delay, exits, overflow_checks>>
  /\ UNCHANGED <<agentFiles, othersButInit>>

(* Supervision loop: the restart signal.  The kubelet held is killed and   *)
(* waited for, the signal file removed, spawn_kubelet called.              *)
init_check_restart_signal(ok) ==
  /\ pid1 = "signal"
  /\ IF restartSignal
       THEN /\ restartSignal' = FALSE
            /\ kubelet' = spawn_service(ok)
            /\ kubeletArgs' = (ok /\ kubeconfigFile)
       ELSE UNCHANGED <<kubelet, kubeletArgs, restartSignal>>
  /\ pid1' = "sleep"
  /\ UNCHANGED <<containerd, agent, agent_restart_count, delay, exits, overflow_checks>>
  /\ UNCHANGED <<agentFiles, othersButInit>>

(* Supervision loop: the five-second sleep. *)
init_sleep ==
  /\ pid1 = "sleep"
  /\ pid1' = "reap"
  /\ UNCHANGED <<containerd, agent, kubelet, agent_restart_count, delay, kubeletArgs, exits,
                 overflow_checks>>
  /\ UNCHANGED <<agentFiles, restartSignal, othersButInit>>

(* keel-init is in its loop with the three services running. *)
InitPid1 ==
  /\ pid1 = "sleep"
  /\ containerd = spawn_service(TRUE)
  /\ agent = spawn_service(TRUE)
  /\ kubelet = spawn_service(TRUE)
  /\ agent_restart_count = 0
  /\ delay = None
  /\ kubeletArgs = FALSE
  /\ exits = 0
  /\ overflow_checks = FALSE

(***************************************************************************)
(* keel-agent: the GetHealth RPC                                           *)
(***************************************************************************)
(* Display for HealthStatus. *)
HealthStatus_to_string(status) ==
  CASE status = "Healthy" -> "healthy"
    [] status = "Degraded" -> "degraded"
    [] OTHER -> "unhealthy"

(* get_health: the status string of one CheckExecution. *)
proto_status(result) ==
  CASE result = "Pass" -> "pass"
    [] result = "Fail" -> "fail"
    [] OTHER -> "unknown"

HealthIdle == [pc |-> "idle", status |-> "", checks |-> [c \in Checks |-> ""]]

(* Mutation of get_health: the overall status counts an Unknown result of  *)
(* a critical check as a failure.                                          *)
get_health_unknown_fails(results) ==
  /\ healthRpc.pc = "idle"
  /\ healthRpc' = [pc |-> "returned",
                   status |-> IF \E c \in Checks : is_critical(c) /\ results[c] # "Pass"
                                THEN "unhealthy"
                                ELSE HealthStatus_to_string(run_all_checks(results)),
                   checks |-> [c \in Checks |-> proto_status(results[c])]]
  /\ UNCHANGED moreButHealth
  /\ UNCHANGED <<schedVars, execVars, instVars, diskVars, supVars, certVars, bootVars, initVars>>

(* GetHealth RPC: run_all_checks and the response built from what it       *)
(* returned.                                                               *)
get_health(results) ==
  /\ healthRpc.pc = "idle"
  /\ healthRpc' = [pc |-> "returned",
                   status |-> HealthStatus_to_string(run_all_checks(results)),
                   checks |-> [c \in Checks |-> proto_status(results[c])]]
  /\ UNCHANGED moreButHealth
  /\ UNCHANGED <<schedVars, execVars, instVars, diskVars, supVars, certVars, bootVars, initVars>>

(* The GetHealth response has been sent. *)
get_health_respond ==
  /\ healthRpc.pc = "returned"
  /\ healthRpc' = HealthIdle
  /\ UNCHANGED moreButHealth
  /\ UNCHANGED <<schedVars, execVars, instVars, diskVars, supVars, certVars, bootVars, initVars>>

(***************************************************************************)
(* disk: detection of the active and the inactive partition                *)
(***************************************************************************)
(* A string is the sequence of its characters; the prefix "/dev/" of a     *)
(* device path is kept as one element, which is no digit.                  *)
Digits == {"0", "1", "2", "3", "4", "5", "6", "7", "8", "9"}

is_ascii_digit(c) == c \in Digits

DigitValue(c) ==
  CASE c = "0" -> 0 [] c = "1" -> 1 [] c = "2" -> 2 [] c = "3" -> 3 [] c = "4" -> 4
    [] c = "5" -> 5 [] c = "6" -> 6 [] c = "7" -> 7 [] c = "8" -> 8 [] OTHER -> 9

(* chars().rev().take_while(is_ascii_digit) and back: the trailing digits. *)
RECURSIVE TrailingDigits(_)
TrailingDigits(s) ==
  IF s = <<>> \/ ~is_ascii_digit(s[Len(s)]) THEN <<>>
  ELSE Append(TrailingDigits(SubSeq(s, 1, Len(s) - 1)), s[Len(s)])

(* chars().take_while(|c| !c.is_ascii_digit()): up to the first digit. *)
RECURSIVE LeadingNonDigits(_)
LeadingNonDigits(s) ==
  IF s = <<>> \/ is_ascii_digit(Head(s)) THEN <<>>
  ELSE <<Head(s)>> \o LeadingNonDigits(Tail(s))

RECURSIVE DecimalValue(_)
DecimalValue(ds) ==
  IF ds = <<>> THEN 0
  ELSE 10 * DecimalValue(SubSeq(ds, 1, Len(ds) - 1)) + DigitValue(ds[Len(ds)])

RECURSIVE StripZeros(_)
StripZeros(ds) == IF ds # <<>> /\ Head(ds) = "0" THEN StripZeros(Tail(ds)) ELSE ds

(* str::parse::<u32>: None for the empty string and for a number above     *)
(* u32::MAX = 4294967295.                                                  *)
parse_u32(ds) ==
  LET sig == StripZeros(ds)
  IN IF ds = <<>> THEN None
     ELSE IF Len(sig) <= 9 THEN Some(DecimalValue(sig))
     ELSE IF Len(sig) > 10 THEN None
     ELSE LET hi == DecimalValue(SubSeq(sig, 1, 9))
              lo == DigitValue(sig[10])
          IN IF hi > 429496729 \/ (hi = 429496729 /\ lo > 5) THEN None
             ELSE Some(10 * hi + lo)

(* u32 formatted with {}: the decimal digits. *)
RECURSIVE u32_to_string(_)
u32_to_string(n) ==
  LET d == CHOOSE c \in Digits : DigitValue(c) = n % 10
  IN IF n < 10 THEN <<d>> ELSE Append(u32_to_string(n \div 10), d)

DEFAULT_DISK == <<"/dev/", "s", "d", "a">>

(* PartitionInfo behind io::Result: ok tells Ok from Err. *)
PartitionInfo(dev, index) == [ok |-> TRUE, device |-> dev, index |-> index]

PartitionErr == [ok |-> FALSE, device |-> <<>>, index |-> 0]

(* The "ultimate fallback": slot A on the default disk. *)
DefaultSlotA == PartitionInfo(DEFAULT_DISK \o u32_to_string(SLOT_A_INDEX), SLOT_A_INDEX)

(* parse_device_path *)
parse_device_path(dev) ==
  LET index == parse_u32(TrailingDigits(dev))
  IN IF IsSome(index) THEN PartitionInfo(dev, Unwrap(index)) ELSE PartitionErr

(* resolve_partuuid: link is the last component of the symlink's target,   *)
(* None when read_link fails.                                              *)
resolve_partuuid(link) ==
  IF IsSome(link) THEN parse_device_path(<<"/dev/">> \o Unwrap(link))
  ELSE DefaultSlotA

(* get_active_partition: cmd is /proc/cmdline (unreadable, without a root= *)
(* parameter, or with root=PARTUUID=.., root=/dev/.. or another root=),    *)
(* mounts the source of the / entry of /proc/mounts.                       *)
get_active_partition(cmd, link, mounts) ==
  CASE cmd.kind = "unreadable" -> PartitionErr
    [] cmd.kind = "partuuid" -> resolve_partuuid(link)
    [] cmd.kind = "dev" -> parse_device_path(<<"/dev/">> \o cmd.root)
    [] OTHER ->
         IF mounts.kind = "dev" THEN parse_device_path(<<"/dev/">> \o mounts.dev)
         ELSE DefaultSlotA

(* get_inactive_partition, after get_active_partition returned Ok(act). *)
inactive_of(act) ==
  LET base_device == LeadingNonDigits(act.device)
      inactive_index == IF act.index = SLOT_A_INDEX THEN SLOT_B_INDEX ELSE SLOT_A_INDEX
  IN PartitionInfo(base_device \o u32_to_string(inactive_index), inactive_index)

(* get_inactive_partition with its call of get_active_partition. *)
get_inactive_partition_info(cmd, link, mounts) ==
  LET act == get_active_partition(cmd, link, mounts)
  IN IF act.ok THEN inactive_of(act) ELSE PartitionErr

(* The disks and partition suffixes of the model's device names. *)
DiskNames == { <<"s", "d", "a">>, <<"n", "v", "m", "e", "0", "n", "1", "p">> }

PartSuffixes ==
  { <<>>, <<"1">>, <<"2">>, <<"3">>, <<"9", "9", "9", "9", "9", "9", "9", "9", "9", "9">> }

DeviceNames == { d \o p : d \in DiskNames, p \in PartSuffixes }

Cmdlines ==
  { [kind |-> k, root |-> <<>>] : k \in {"unreadable", "no_root", "partuuid", "label"} }
  \cup { [kind |-> "dev", root |-> n] : n \in DeviceNames }

RootMounts ==
  { [kind |-> k, dev |-> <<>>] : k \in {"unreadable", "not_dev"} }
  \cup { [kind |-> "dev", dev |-> n] : n \in DeviceNames }

DetectIdle == [pc |-> "idle", active |-> PartitionErr, inactive |-> PartitionErr]

(* A caller (rollback_to_previous_partition) asks for the active           *)
(* partition.                                                              *)
disk_get_active ==
  /\ detect.pc = "idle"
  /\ detect' = [pc |-> "active",
                active |-> get_active_partition(cmdline, partLink, rootMount),
                inactive |-> PartitionErr]
  /\ UNCHANGED diskEnv
  /\ UNCHANGED moreButDetect
  /\ UNCHANGED <<schedVars, execVars, instVars, diskVars, supVars, certVars, bootVars, initVars>>

(* A caller (install_update, execute_scheduled_update) asks for the        *)
(* inactive partition.                                                     *)
disk_get_inactive ==
  /\ detect.pc = "idle"
  /\ detect' = [pc |-> "inactive",
                active |-> get_active_partition(cmdline, partLink, rootMount),
                inactive |-> get_inactive_partition_info(cmdline, partLink, rootMount)]
  /\ UNCHANGED diskEnv
  /\ UNCHANGED moreButDetect
  /\ UNCHANGED <<schedVars, execVars, instVars, diskVars, supVars, certVars, bootVars, initVars>>

(* The caller is done with the answer. *)
disk_done ==
  /\ detect.pc # "idle"
  /\ detect' = DetectIdle
  /\ UNCHANGED diskEnv
  /\ UNCHANGED moreButDetect
  /\ UNCHANGED <<schedVars, execVars, instVars, diskVars, supVars, certVars, bootVars, initVars>>

(* The node is rebooted with root= naming the partition that               *)
(* get_inactive_partition returned (the slot an update was flashed to).    *)
disk_boot_inactive ==
  /\ detect.pc = "inactive"
  /\ detect.inactive.ok
  /\ cmdline' = [kind |-> "dev", root |-> Tail(detect.inactive.device)]
  /\ detect' = DetectIdle
  /\ UNCHANGED <<partLink, rootMount>>
  /\ UNCHANGED moreButDetect
  /\ UNCHANGED <<schedVars, execVars, instVars, diskVars, supVars, certVars, bootVars, initVars>>


(* A node booted from slot A of the default disk. *)
InitDisk ==
  /\ cmdline = [kind |-> "dev", root |-> Tail(DefaultSlotA.device)]
  /\ partLink = None
  /\ rootMount = [kind |-> "dev", dev |-> Tail(DefaultSlotA.device)]
  /\ detect = DetectIdle

(***************************************************************************)
(* keel-agent: the certificate manager's rotation monitor                  *)
(***************************************************************************)
(* CertManagerConfig::default *)
rotation_days_before_expiry == 30

cert_validity_days == 90

(* Truncating integer division, as i64 division and Duration::whole_days   *)
(* do it.                                                                  *)
TruncDiv(a, b) == IF a >= 0 THEN a \div b ELSE 0 - ((0 - a) \div b)

(* rotation::check_expiry: (not_after - now).whole_days() and the          *)
(* comparison with warn_days, for a certificate that parses.               *)
days_until_expiry(t) == TruncDiv(t, TicksPerDay)

is_expiring_soon(t, warn_days) == days_until_expiry(t) <= warn_days

(* cert_expiry::asn1_time_to_unix: asn1_time.diff(&epoch) is the time from *)
(* asn1_time to the epoch (Asn1TimeRef::diff(compare) is compare - self),  *)
(* in days and seconds, added up.                                          *)
asn1_time_to_unix(t) == 0 - t

(* cert_expiry::days_until_expiry for a certificate whose not_after is t   *)
(* after now, now being unix_now after the epoch.                          *)
cert_expiry_days_until_expiry(t, unix_now) ==
  LET expiry_time == asn1_time_to_unix(unix_now + t)
      seconds_remaining == expiry_time - unix_now
  IN TruncDiv(seconds_remaining, TicksPerDay)

(* cert_expiry::should_rotate for a certificate that can be read. *)
should_rotate(t, unix_now) == cert_expiry_days_until_expiry(t, unix_now) < 30

(* The time of the model's runs, in ticks after the epoch. *)
UnixNow == 40000 * TicksPerDay

(* The time the oldest ttl the model tells apart lies in the past. *)
TtlFloor == 0 - 2 * TicksPerDay

MonIdle == [pc |-> "check", checked |-> FALSE, days |-> 0, soon |-> FALSE]

(* start_rotation_monitor -> check_and_rotate: read the server             *)
(* certificate and check its expiry.  An error ends the iteration.         *)
monitor_check(readable) ==
  /\ mon.pc = "check"
  /\ rot.pc = "idle"
  /\ IF readable /\ certFile # 0
       THEN LET soon == is_expiring_soon(ttl[certFile], rotation_days_before_expiry)
            IN mon' = [pc |-> IF soon THEN "issue" ELSE "sleep", checked |-> TRUE,
                       days |-> days_until_expiry(ttl[certFile]), soon |-> soon]
       ELSE mon' = [MonIdle EXCEPT !.pc = "sleep"]
  /\ UNCHANGED <<needs_reload, ttl>>
  /\ UNCHANGED moreButMon
  /\ UNCHANGED <<schedVars, execVars, instVars, diskVars, supVars, certVars, bootVars, initVars>>

(* rotate_server_certificate: issue_certificate signs the next leaf, valid *)
(* for cert_validity_days from now, or fails.                              *)
monitor_issue(ok) ==
  /\ mon.pc = "issue"
  /\ ok => issued < MaxLeaves
  /\ IF ok
       THEN /\ ttl' = [ttl EXCEPT ![issued + 1] = cert_validity_days * TicksPerDay]
            /\ mon' = [mon EXCEPT !.pc = "rotate"]
       ELSE /\ mon' = [mon EXCEPT !.pc = "sleep"]
            /\ UNCHANGED ttl
  /\ UNCHANGED needs_reload
  /\ UNCHANGED moreButMon
  /\ UNCHANGED <<schedVars, execVars, instVars, diskVars, supVars, certVars, bootVars, initVars>>

(* rotate_certificate has returned: check_and_rotate returns Ok(true) and  *)
(* the monitor sets needs_reload, or the error is logged.                  *)
monitor_rotated ==
  /\ mon.pc = "rotate"
  /\ rot.pc = "done"
  /\ rot' = RotIdle
  /\ needs_reload' = IF rot.result = "Ok" THEN TRUE ELSE needs_reload
  /\ mon' = [mon EXCEPT !.pc = "sleep"]
  /\ UNCHANGED ttl
  /\ UNCHANGED <<certFile, keyFile, tempCert, tempKey, certBackup, keyBackup, issued, rd>>
  /\ UNCHANGED moreButMon
  /\ UNCHANGED <<schedVars, execVars, instVars, diskVars, supVars, bootVars, initVars>>

(* start_rotation_monitor: sleep(86400 s); every leaf is a day nearer to   *)
(* its not_after.  The time of a leaf that is in no certificate file any   *)
(* more is not followed further.                                           *)
monitor_sleep ==
  /\ mon.pc = "sleep"
  /\ ttl' = [l \in DOMAIN ttl |->
               IF l > issued THEN ttl[l]
               ELSE IF l \in {certFile, tempCert} /\ ttl[l] - TicksPerDay >= TtlFloor
                 THEN ttl[l] - TicksPerDay
                 ELSE TtlFloor]
  /\ mon' = MonIdle
  /\ UNCHANGED needs_reload
  /\ UNCHANGED moreButMon
  /\ UNCHANGED <<schedVars, execVars, instVars, diskVars, supVars, certVars, bootVars, initVars>>

(***************************************************************************)
(* keel-agent: waiting for a certificate signing request to be signed      *)
(***************************************************************************)
(* server_cert::wait_for_certificate: max_wait and the sleep of a round. *)
server_cert_max_wait_secs == 300
server_cert_poll_secs == 5

(* K8sCsrManager::wait_for_certificate: `for attempt in 1..=30` and the    *)
(* sleep of a round.                                                       *)
k8s_csr_attempts == 30
k8s_csr_poll_secs == 2

(* The two request paths. *)
CsrPaths == {"server_cert", "k8s_csr"}

(* The CertificateSigningRequest at the signer: no certificate and no      *)
(* Denied condition yet, status.certificate set, or condition Denied=True. *)
CsrStates == {"pending", "issued", "denied"}

(* What csr_api.get takes beyond the sleep, in seconds. *)
GetLatencies == {0, 1}

CsrIdle == [pc |-> "idle", path |-> "", polls |-> 0, elapsed |-> 0, result |-> ""]

(* What one round of server_cert::wait_for_certificate makes of the        *)
(* object it got: "" is the next round.                                    *)
server_cert_round(got, obj) ==
  IF ~got THEN "ApiError"
  ELSE IF obj = "issued" THEN "certificate"
  ELSE IF obj = "denied" THEN "SigningDenied"
  ELSE ""

(* What one round of K8sCsrManager::wait_for_certificate makes of it: only *)
(* status.certificate is looked at.                                        *)
k8s_csr_round(got, obj) ==
  IF ~got THEN "ApiError"
  ELSE IF obj = "issued" THEN "certificate"
  ELSE ""

(* submit_server_csr / K8sCsrManager::submit_csr: the request is created   *)
(* with status None and the task starts to wait.                           *)
csr_submit(path) ==
  /\ csrReq.pc = "idle"
  /\ csrReq' = [CsrIdle EXCEPT !.pc = "waiting", !.path = path]
  /\ csrObj' = "pending"
  /\ UNCHANGED <<schedVars, execVars, instVars, diskVars, supVars, certVars, bootVars, initVars,
                 moreButCsr>>

(* The signer (or an administrator) issues the certificate or denies the   *)
(* request.                                                                *)
signer_decide(decision) ==
  /\ csrReq.pc = "waiting"
  /\ csrObj = "pending"
  /\ csrObj' = decision
  /\ UNCHANGED <<csrReq>>
  /\ UNCHANGED <<schedVars, execVars, instVars, diskVars, supVars, certVars, bootVars, initVars,
                 moreButCsr>>

(* server_cert::wait_for_certificate: the loop condition, then one round   *)
(* (sleep, get, look at the status).                                       *)
server_cert_wait(got, latency) ==
  /\ csrReq.pc = "waiting"
  /\ csrReq.path = "server_cert"
  /\ IF csrReq.elapsed < server_cert_max_wait_secs
       THEN LET r == server_cert_round(got, csrObj)
            IN csrReq' = [csrReq EXCEPT !.polls = @ + 1,
                                        !.elapsed = @ + server_cert_poll_secs + latency,
                                        !.result = r,
                                        !.pc = IF r = "" THEN "waiting" ELSE "returned"]
       ELSE csrReq' = [csrReq EXCEPT !.result = "Timeout", !.pc = "returned"]
  /\ UNCHANGED <<csrObj>>
  /\ UNCHANGED <<schedVars, execVars, instVars, diskVars, supVars, certVars, bootVars, initVars,
                 moreButCsr>>

(* K8sCsrManager::wait_for_certificate: the next attempt of the for loop,  *)
(* or its end.                                                             *)
k8s_csr_wait(got, latency) ==
  /\ csrReq.pc = "waiting"
  /\ csrReq.path = "k8s_csr"
  /\ IF csrReq.polls < k8s_csr_attempts
       THEN LET r == k8s_csr_round(got, csrObj)
            IN csrReq' = [csrReq EXCEPT !.polls = @ + 1,
                                        !.elapsed = @ + k8s_csr_poll_secs + latency,
                                        !.result = r,
                                        !.pc = IF r = "" THEN "waiting" ELSE "returned"]
       ELSE csrReq' = [csrReq EXCEPT !.result = "Timeout", !.pc = "returned"]
  /\ UNCHANGED <<csrObj>>
  /\ UNCHANGED <<schedVars, execVars, instVars, diskVars, supVars, certVars, bootVars, initVars,
                 moreButCsr>>

(* The caller has the result; the task is gone. *)
csr_return ==
  /\ csrReq.pc = "returned"
  /\ csrReq' = CsrIdle
  /\ UNCHANGED <<csrObj>>
  /\ UNCHANGED <<schedVars, execVars, instVars, diskVars, supVars, certVars, bootVars, initVars,
                 moreButCsr>>

(* No request under way. *)
InitCsr ==
  /\ csrReq = CsrIdle
  /\ csrObj = "pending"


(***************************************************************************)
(* Two runs of the scheduler given the same operations                     *)
(***************************************************************************)
(* Nothing scheduled yet in either run. *)
ReplayIdle == [pc |-> "build", table |-> <<>>, t |-> 0, orders |-> <<>>, slots |-> <<>>]

(* The same ScheduleUpdate request in both runs: the job is inserted into  *)
(* each run's HashMap.                                                     *)
replay_schedule(req) ==
  /\ replay.pc = "build"
  /\ Len(replay.table) < MaxReplayJobs
  /\ replay' = [replay EXCEPT !.table = Append(@, NewSchedule(Len(@) + 1, req))]
  /\ UNCHANGED <<schedVars, execVars, instVars, diskVars, supVars, certVars, bootVars, initVars,
                 moreButReplay>>

(* The clock advances, equally in both runs. *)
replay_advance ==
  /\ replay.pc = "build"
  /\ replay.t < MaxTime
  /\ replay' = [replay EXCEPT !.t = @ + 1]
  /\ UNCHANGED <<schedVars, execVars, instVars, diskVars, supVars, certVars, bootVars, initVars,
                 moreButReplay>>

(* schedule_executor's tick in both runs: get_due_schedules collects the   *)
(* due jobs in the order each run's HashMap yields its values.             *)
replay_tick ==
  /\ replay.pc = "build"
  /\ get_due_schedules(replay.table, replay.t) # {}
  /\ \E first \in Orders(get_due_schedules(replay.table, replay.t)),
        second \in Orders(get_due_schedules(replay.table, replay.t)) :
       replay' = [replay EXCEPT !.pc = "flash", !.orders = <<first, second>>]
  /\ UNCHANGED <<schedVars, execVars, instVars, diskVars, supVars, certVars, bootVars, initVars,
                 moreButReplay>>

(* The for loop over due_schedules in both runs, every step succeeding:    *)
(* each job's image is flashed to the inactive slot in turn, so the slot   *)
(* ends up holding the image of the last job of the batch.                 *)
replay_flash ==
  /\ replay.pc = "flash"
  /\ replay' = [replay EXCEPT !.pc = "done",
                              !.slots = [r \in 1..2 |-> replay.orders[r][Len(replay.orders[r])]]]
  /\ UNCHANGED <<schedVars, execVars, instVars, diskVars, supVars, certVars, bootVars, initVars,
                 moreButReplay>>

InitReplay == replay = ReplayIdle


(* No monitor at work; leaf 1 was issued just now. *)
InitMonitorIdle ==
  /\ mon = MonIdle
  /\ needs_reload = FALSE
  /\ ttl = [l \in 1..MaxLeaves |-> IF l = 1 THEN cert_validity_days * TicksPerDay ELSE 0]


InitHealthRpc ==
  /\ healthRpc = HealthIdle

InitMore ==
  /\ InitHealthRpc
  /\ InitDisk
  /\ InitMonitorIdle
  /\ InitSigned
  /\ InitCsr
  /\ InitReplay


InitNode ==
  /\ InitBoot
  /\ InitPid1
  /\ InitMore

(***************************************************************************)
(* The agent                                                               *)
(***************************************************************************)

InitUpdateTasks ==
  /\ now = 0
  /\ api = ApiIdle
  /\ execPc = "sleep"
  /\ batch = <<>>
  /\ cur = None
  /\ execTarget = None
  /\ execFlash = None
  /\ execErr = None
  /\ runlog = [id \in 1..MaxJobs |-> <<>>]
  /\ tickAt = 0
  /\ finished = {}
  /\ inst = InstIdle
  /\ installs = 0
  /\ bootAttr = {active}
  /\ bootNext = None
  /\ device = "old"
  /\ InitSupervisor

InitTasks ==
  /\ InitUpdateTasks
  /\ InitCerts
  /\ InitNode

(* A freshly provisioned node: no schedule file, no rollback state file. *)
InitAgent ==
  /\ schedules = <<>>
  /\ scheduleFile = [state |-> "absent", table |-> <<>>]
  /\ rollbackFile = [state |-> "absent", record |-> DefaultRollbackState]
  /\ InitTasks

vars == <<schedVars, execVars, instVars, diskVars, supVars, certVars, nodeVars>>

(* The steps of the schedule executor, for the given behaviour of the      *)
(* schedule file (W), of the image source and device (F) and of sgdisk (S) *)
Executor(W, F, S) ==
  \/ executor_tick
  \/ executor_mark_running
  \/ \E w \in W : executor_persist_running(w)
  \/ \E partOk \in BOOLEAN, outcome \in HookOutcomes : execute_prepare(partOk, outcome)
  \/ \E env \in F : execute_flash_open(env)
  \/ \E env \in F : execute_flash_write(env)
  \/ \E outcome \in HookOutcomes, env \in S : execute_finish(outcome, env)
  \/ executor_mark_final
  \/ \E w \in W : executor_persist_final(w)

(* What the executor's flash_image and sgdisk runs meet: the download      *)
(* fails, the device write fails, the digest differs, or all is well;      *)
(* sgdisk sets the boot attribute or exits non-zero.                       *)
SchedFlashEnvs == { e \in FlashEnvs : e.chunks = 1 /\ e.fail \in {"none", "download", "write"} }

SchedSwitchEnvs == { e \in SwitchEnvs : e.sgdisk /\ e.clear = "ok" /\ e.set # "spawn_err" /\ e.marker }

(* The update scheduler: its RPCs, the clock and the executor.  A write    *)
(* of the schedule file may fail under the RPCs.                           *)
Init ==
  /\ active = SLOT_A_INDEX
  /\ InitAgent

Next ==
  \/ \E req \in ScheduleRequests : schedule_update(req)
  \/ \E id \in 1..MaxJobs : cancel_schedule(id)
  \/ \E w \in WriteOutcomes : api_persist(w)
  \/ api_respond
  \/ Advance
  \/ Executor({"ok"}, SchedFlashEnvs, SchedSwitchEnvs)

Spec == Init /\ [][Next]_vars

(* The image engine: InstallUpdate streams, meeting every fault of the     *)
(* download, the device and sgdisk, next to a scheduled install.           *)
InitInstall ==
  /\ active \in Slots
  /\ InitAgent

NextInstall ==
  \/ \E req \in ScheduleRequests : schedules = <<>> /\ schedule_update(req)
  \/ api_persist("ok")
  \/ api_respond
  \/ Executor({"ok"}, SchedFlashEnvs, SchedSwitchEnvs)
  \/ \E digest \in InstallDigests, partOk \in BOOLEAN : install_update(digest, partOk)
  \/ \E env \in FlashEnvs : install_flash_open(env)
  \/ \E env \in FlashEnvs : install_flash_write(env)
  \/ \E env \in SwitchEnvs : install_switch(env)

SpecInstall == InitInstall /\ [][NextInstall]_vars

(* The rollback paths on a node that has booted after an update: the       *)
(* rollback state file is whatever earlier boots left (absent, unparsable, *)
(* or a RollbackState), the schedule file may hold the completed job.      *)
InstalledJob ==
  [NewSchedule(1, CHOOSE req \in ScheduleRequests : req.scheduled_at = None)
     EXCEPT !.status = "Completed", !.started_at = Some(0), !.completed_at = Some(0)]

RollbackFiles ==
  { [state |-> "absent", record |-> DefaultRollbackState],
    [state |-> "corrupt", record |-> DefaultRollbackState] }
  \cup { [state |-> "ok", record |-> [previous_partition |-> p, boot_counter |-> n]] :
           p \in {None} \cup { Some(i) : i \in Slots }, n \in 0..MaxBootCounter }

InitRollback ==
  /\ active \in Slots
  /\ rollbackFile \in RollbackFiles
  /\ schedules \in { <<>>, <<InstalledJob>> }
  /\ scheduleFile = (IF schedules = <<>> THEN [state |-> "absent", table |-> <<>>]
                     ELSE [state |-> "ok", table |-> schedules])
  /\ InitTasks

(* sgdisk during a rollback: missing, or each of its two runs succeeding    *)
(* or exiting non-zero.                                                    *)
RollbackSwitchEnvs ==
  { e \in SwitchEnvs : e.marker /\ e.clear # "spawn_err" /\ e.set # "spawn_err" }

NextRollback ==
  \/ \E results \in [Checks -> HealthCheckResults] : supervisor_check(results)
  \/ supervisor_register
  \/ \E env \in RollbackSwitchEnvs, w \in WriteOutcomes : supervisor_rollback(env, w)
  \/ \E env \in RollbackSwitchEnvs, w \in WriteOutcomes : trigger_rollback(env, w)
  \/ get_rollback_history
  \/ system_reboot

SpecRollback == InitRollback /\ [][NextRollback]_vars

(* Replacing the certificate pair while the transport setup loads it. *)
NextRotate ==
  \/ \E pem \in PemKinds, w \in WriteOutcomes : rotate_write_temp_cert(pem, w)
  \/ \E w \in WriteOutcomes : rotate_write_temp_key(w)
  \/ \E ok \in BOOLEAN : rotate_rename_cert(ok)
  \/ \E ok \in BOOLEAN : rotate_rename_key(ok)
  \/ \E got \in BOOLEAN : renew_request(got)
  \/ \E okCert \in BOOLEAN, okKey \in BOOLEAN : renew_backup(okCert, okKey)
  \/ \E w \in WriteOutcomes : renew_write_cert(w)
  \/ \E w \in WriteOutcomes : renew_write_key(w)
  \/ rot_return
  \/ reader_read_cert
  \/ reader_read_key

SpecRotate == Init /\ [][NextRotate]_vars

(* The agent from its start to serving, over every configuration of the    *)
(* certificate files, with the bootstrap RPCs.                             *)
InitUpdateIdle ==
  /\ active = SLOT_A_INDEX
  /\ schedules = <<>>
  /\ scheduleFile = [state |-> "absent", table |-> <<>>]
  /\ rollbackFile = [state |-> "absent", record |-> DefaultRollbackState]
  /\ InitUpdateTasks

InitTransport ==
  /\ InitUpdateIdle
  /\ InitPid1
  /\ InitMore
  /\ certFile \in {0, 1}
  /\ keyFile \in {0, 1}
  /\ tempCert = 0
  /\ tempKey = 0
  /\ certBackup = 0
  /\ keyBackup = 0
  /\ rot = RotIdle
  /\ issued = 1
  /\ rd = RdIdle
  /\ bootstrapCa \in BOOLEAN
  /\ k8sCa \in BOOLEAN
  /\ kubeconfigFile \in BOOLEAN
  /\ bootstrapStateFile = kubeconfigFile
  /\ restartSignal = FALSE
  /\ agentPc = "start"
  /\ tls = NoTls
  /\ lastRpc = NoRpc
  /\ bk = BkIdle

NextTransport ==
  \/ \E outcome \in CertRequestOutcomes : agent_request_server_certificate(outcome)
  \/ \E readable \in BOOLEAN : agent_tls_setup(readable)
  \/ \E client \in Clients : get_bootstrap_status(client)
  \/ \E client \in Clients, signed \in BOOLEAN : sign_bootstrap_certificate(client, signed)
  \/ \E client \in Clients, valid \in BOOLEAN, prepared \in BOOLEAN :
       bootstrap_kubernetes(client, valid, prepared)
  \/ \E w \in WriteOutcomes : bk_write_kubeconfig(w)
  \/ \E w \in WriteOutcomes : bk_save_state(w)
  \/ \E w \in WriteOutcomes : bk_signal(w)
  \/ bk_respond

SpecTransport == InitTransport /\ [][NextTransport]_vars

(* The steps of the supervision loop, for the given outcomes of a spawn. *)
SuperviseLoop(OK) ==
  \/ init_reap_zombies
  \/ \E ok \in OK : init_check_containerd(ok)
  \/ init_check_agent
  \/ \E ok \in OK : init_respawn_agent(ok)
  \/ init_check_kubelet
  \/ \E ok \in OK : init_check_restart_signal(ok)
  \/ init_sleep

(* keel-init from its start. *)
KeelInit(OK) ==
  \/ \E mounted \in BOOLEAN : init_run(mounted)
  \/ \E okContainerd \in OK, okAgent \in OK, okKubelet \in OK :
       init_start_services(okContainerd, okAgent, okKubelet)
  \/ SuperviseLoop(OK)

(* A BootstrapKubernetes call of an admitted client to the running agent. *)
BootstrapCalls ==
  \/ agent.proc = "running" /\ bootstrap_kubernetes("bootstrap", TRUE, TRUE)
  \/ \E w \in WriteOutcomes : bk_write_kubeconfig(w)
  \/ \E w \in WriteOutcomes : bk_save_state(w)
  \/ \E w \in WriteOutcomes : bk_signal(w)
  \/ bk_respond

(* PID 1 has just been started by the kernel on a node that has not        *)
(* joined; the build has overflow checks or not.                           *)
InitSupervise ==
  /\ InitUpdateIdle
  /\ InitCerts
  /\ InitBoot
  /\ InitMore
  /\ pid1 = "run"
  /\ containerd = NoChild
  /\ agent = NoChild
  /\ kubelet = NoChild
  /\ agent_restart_count = 0
  /\ delay = None
  /\ kubeletArgs = FALSE
  /\ exits = 0
  /\ overflow_checks \in BOOLEAN

(* Supervision with spawns that may fail. *)
NextSupervise ==
  \/ KeelInit(BOOLEAN)
  \/ \E svc \in Services : child_exit(svc)
  \/ BootstrapCalls

SpecSupervise == InitSupervise /\ [][NextSupervise]_vars

(* Supervision on a node whose service binaries are installed and start:   *)
(* keel-init is a single thread that is always scheduled, so each of its   *)
(* steps is taken once it is due; the children and the clients are under   *)
(* no obligation.                                                          *)
NextSuperviseLive ==
  \/ KeelInit({TRUE})
  \/ \E svc \in Services : child_exit(svc)
  \/ BootstrapCalls

SpecSuperviseLive ==
  InitSupervise /\ [][NextSuperviseLive]_vars /\ WF_vars(KeelInit({TRUE}))

(* The supervision loop after any number of agent restarts. *)
InitBackoff ==
  /\ InitUpdateIdle
  /\ InitCerts
  /\ InitBoot
  /\ InitMore
  /\ pid1 = "sleep"
  /\ containerd = spawn_service(TRUE)
  /\ agent = spawn_service(TRUE)
  /\ kubelet = spawn_service(TRUE)
  /\ agent_restart_count \in 0..MaxRestartCount
  /\ delay = None
  /\ kubeletArgs = FALSE
  /\ exits = 0
  /\ overflow_checks \in BOOLEAN

NextBackoff ==
  \/ SuperviseLoop(BOOLEAN)
  \/ child_exit("agent")

SpecBackoff == InitBackoff /\ [][NextBackoff]_vars

(* Partition detection on a node whose kernel command line, by-partuuid    *)
(* symlink and mount table are any of the modelled ones.                   *)
InitDetect ==
  /\ InitUpdateIdle
  /\ InitCerts
  /\ InitBoot
  /\ InitPid1
  /\ InitHealthRpc
  /\ InitSigned
  /\ InitReplay
  /\ InitCsr
  /\ InitMonitorIdle
  /\ cmdline \in Cmdlines
  /\ partLink \in (IF cmdline.kind = "partuuid"
                     THEN {None} \cup { Some(n) : n \in DeviceNames }
                     ELSE {None})
  /\ rootMount \in RootMounts
  /\ detect = DetectIdle

NextDetect ==
  \/ disk_get_active
  \/ disk_get_inactive
  \/ disk_done
  \/ disk_boot_inactive

SpecDetect == InitDetect /\ [][NextDetect]_vars


(* The rotation monitor of the certificate manager, started when the       *)
(* server leaf has any of the listed times left; the transport has loaded  *)
(* the pair of leaf 1 at the start of the agent.                           *)
InitialTtls ==
  { d * TicksPerDay + h : d \in {0 - 1, 0, 29, 30, 31, 89}, h \in {0, 1} }

InitMonitor ==
  /\ InitUpdateIdle
  /\ InitBoot
  /\ InitPid1
  /\ InitHealthRpc
  /\ InitSigned
  /\ InitReplay
  /\ InitCsr
  /\ InitDisk
  /\ certFile = 1
  /\ keyFile = 1
  /\ tempCert = 0
  /\ tempKey = 0
  /\ certBackup = 0
  /\ keyBackup = 0
  /\ rot = RotIdle
  /\ issued = 1
  /\ rd = [pc |-> "loaded", cert |-> 1, key |-> 1]
  /\ mon = MonIdle
  /\ needs_reload = FALSE
  /\ \E t \in InitialTtls : ttl = [l \in 1..MaxLeaves |-> IF l = 1 THEN t ELSE 0]

(* rotate_server_certificate -> rotate_certificate with the leaf issued. *)
MonitorRotation ==
  /\ mon.pc = "rotate"
  /\ \/ \E w \in WriteOutcomes : rotate_write_temp_cert("valid", w)
     \/ \E w \in WriteOutcomes : rotate_write_temp_key(w)
     \/ \E ok \in BOOLEAN : rotate_rename_cert(ok)
     \/ \E ok \in BOOLEAN : rotate_rename_key(ok)

NextMonitor ==
  \/ \E readable \in BOOLEAN : monitor_check(readable)
  \/ \E ok \in BOOLEAN : monitor_issue(ok)
  \/ MonitorRotation
  \/ monitor_rotated
  \/ monitor_sleep

SpecMonitor == InitMonitor /\ [][NextMonitor]_vars

(* The monitor is a spawned task whose loop only sleeps between checks:    *)
(* it keeps taking its steps.                                              *)
SpecMonitorLive == InitMonitor /\ [][NextMonitor]_vars /\ WF_vars(NextMonitor)


(* The health checks as the GetHealth RPC and the rollback supervisor run  *)
(* them on a freshly booted node.                                          *)
NextHealth ==
  \/ \E results \in [Checks -> HealthCheckResults] : get_health(results)
  \/ get_health_respond
  \/ \E results \in [Checks -> HealthCheckResults] : supervisor_check(results)
  \/ supervisor_register
  \/ \E env \in RollbackSwitchEnvs, w \in WriteOutcomes : supervisor_rollback(env, w)

SpecHealth == Init /\ [][NextHealth]_vars


(* The two request paths, from the submission of the request to the        *)
(* result, with the signer deciding at any time or never.                  *)
NextCsr ==
  \/ \E path \in CsrPaths : csr_submit(path)
  \/ \E decision \in {"issued", "denied"} : signer_decide(decision)
  \/ \E got \in BOOLEAN, latency \in GetLatencies : server_cert_wait(got, latency)
  \/ \E got \in BOOLEAN, latency \in GetLatencies : k8s_csr_wait(got, latency)
  \/ csr_return

SpecCsr == Init /\ [][NextCsr]_vars


(***************************************************************************)
(* fs::write of the schedule file and of the rollback state file, step by  *)
(* step                                                                    *)
(***************************************************************************)
(* fs::write opens the canonical path itself with create + truncate and    *)
(* then writes the bytes: between the two the file is empty or holds a     *)
(* prefix of the JSON, which does not parse.                               *)
TruncatedSchedules == [state |-> "truncated", table |-> <<>>]
TruncatedRollbackState == [state |-> "truncated", record |-> DefaultRollbackState]

(* persist_schedules at the end of schedule_update or cancel_schedule:     *)
(* fs::write opens the schedule file, or fails to.                         *)
persist_write_open(w) ==
  /\ api.pc = "persist"
  /\ IF w = "ok"
       THEN /\ scheduleFile' = TruncatedSchedules
            /\ api' = [api EXCEPT !.pc = "writing"]
       ELSE /\ api' = Returned(api.op, api.id, "Failed to write schedules")
            /\ UNCHANGED scheduleFile
  /\ UNCHANGED <<schedules, now>>
  /\ UNCHANGED <<execVars, instVars, diskVars>>
  /\ UNCHANGED <<supVars, certVars, nodeVars>>

(* fs::write writes the serialized table, or fails part-way; the call      *)
(* returns.                                                                *)
persist_write_data(w) ==
  /\ api.pc = "writing"
  /\ scheduleFile' = IF w = "ok" THEN persist_schedules(schedules, scheduleFile, w)
                     ELSE TruncatedSchedules
  /\ api' = Returned(api.op, api.id, IF w = "ok" THEN "Ok" ELSE "Failed to write schedules")
  /\ UNCHANGED <<schedules, now>>
  /\ UNCHANGED <<execVars, instVars, diskVars>>
  /\ UNCHANGED <<supVars, certVars, nodeVars>>

(* TriggerRollback RPC: rollback_to_previous_partition up to the point     *)
(* where save_rollback_state's fs::write has opened the state file.        *)
rollback_save_open(env) ==
  /\ rb.result # "saving"
  /\ LET r == rollback_to_previous_partition(rollbackFile, bootAttr, bootNext, env, "ok")
     IN /\ bootAttr' = r.attrs
        /\ bootNext' = r.marker
        /\ rollbackFile' = IF r.switched THEN TruncatedRollbackState ELSE r.file
        /\ rb' = [result |-> IF r.switched THEN "saving" ELSE r.result,
                  target |-> r.target, switched |-> r.switched]
  /\ history' = None
  /\ UNCHANGED <<supPc, health, supCalls, supResult, autoRolledBack, boots>>
  /\ UNCHANGED <<active, device>>
  /\ UNCHANGED <<schedVars, execVars, instVars, certVars, nodeVars>>

(* save_rollback_state: fs::write writes the cleared state, or fails       *)
(* part-way; rollback_to_previous_partition returns.                       *)
rollback_save_data(w) ==
  /\ rb.result = "saving"
  /\ rollbackFile' = IF w = "ok"
                       THEN save_rollback_state(DefaultRollbackState, rollbackFile, w)
                       ELSE TruncatedRollbackState
  /\ rb' = [rb EXCEPT !.result = IF w = "ok" THEN "Ok" ELSE "io error"]
  /\ UNCHANGED <<supPc, health, supCalls, supResult, history, autoRolledBack, boots>>
  /\ UNCHANGED <<active, bootAttr, bootNext, device>>
  /\ UNCHANGED <<schedVars, execVars, instVars, certVars, nodeVars>>

(* The RPCs that write the two state files, with a crash or power loss     *)
(* (and the restart that reads the files) at any point.                    *)
NextPersist ==
  \/ \E req \in ScheduleRequests : schedule_update(req)
  \/ \E id \in 1..MaxJobs : cancel_schedule(id)
  \/ \E w \in WriteOutcomes : persist_write_open(w)
  \/ \E w \in WriteOutcomes : persist_write_data(w)
  \/ api_respond
  \/ \E env \in RollbackSwitchEnvs : rollback_save_open(env)
  \/ \E w \in WriteOutcomes : rollback_save_data(w)
  \/ system_reboot

SpecPersist == InitRollback /\ [][NextPersist]_vars


(* The update scheduler over a restart: the writes of the schedule file    *)
(* may fail under the executor too, and the node may reboot at any point,  *)
(* after which a new UpdateScheduler is loaded from the schedule file.     *)
NextRestart ==
  \/ \E req \in ScheduleRequests : schedule_update(req)
  \/ \E id \in 1..MaxJobs : cancel_schedule(id)
  \/ \E w \in WriteOutcomes : api_persist(w)
  \/ api_respond
  \/ Advance
  \/ Executor(WriteOutcomes, SchedFlashEnvs, SchedSwitchEnvs)
  \/ system_reboot

SpecRestart == Init /\ [][NextRestart]_vars


(* The RPC task's steps. *)
ApiSteps ==
  \/ \E id \in 1..MaxJobs : cancel_schedule(id)
  \/ \E w \in WriteOutcomes : api_persist(w)
  \/ api_respond

(* The same with the scheduling the runtime gives: the executor task takes *)
(* its next step whenever it has one (its sleep ends, and each hook,       *)
(* flash_image and sgdisk call returns), and so does the task serving the  *)
(* RPCs, which clients keep calling.                                       *)
SpecRestartLive ==
  /\ Init
  /\ [][NextRestart]_vars
  /\ WF_vars(Executor(WriteOutcomes, SchedFlashEnvs, SchedSwitchEnvs))
  /\ WF_vars(ApiSteps)


(* Two runs that receive the same ScheduleUpdate requests at the same      *)
(* times and whose executors tick at the same time.                        *)
NextReplay ==
  \/ \E req \in ScheduleRequests : replay_schedule(req)
  \/ replay_advance
  \/ replay_tick
  \/ replay_flash

SpecReplay == Init /\ [][NextReplay]_vars


(***************************************************************************)
(* Properties of the update scheduler and the schedule executor            *)
(***************************************************************************)
DeclaredEdges ==
  { <<"Pending", "Running">>, <<"Running", "Completed">>, <<"Running", "Failed">>,
    <<"Pending", "Cancelled">>, <<"Completed", "RolledBack">> }

TerminalStatuses == {"Completed", "Failed", "Cancelled", "RolledBack"}

(* C1: every change of a job's status follows an edge of the declared      *)
(* machine, and a job that has reached a terminal status is never seen     *)
(* with a non-terminal status afterwards.                                  *)
C1_StatusFollowsMachine ==
  [][\A id \in DOMAIN schedules :
       /\ schedules'[id].status # schedules[id].status =>
            <<schedules[id].status, schedules'[id].status>> \in DeclaredEdges
       /\ schedules[id].status \in TerminalStatuses =>
            schedules'[id].status \in TerminalStatuses]_vars

(* The steps of a CancelScheduledUpdate call as the RPC task takes them. *)
CancelAccepted == api.pc = "idle" /\ api'.pc = "persist" /\ api'.op = "cancel"

CancelRejected == api.pc = "idle" /\ api'.pc = "returned" /\ api'.op = "cancel"

CancelReturns == api.pc = "persist" /\ api.op = "cancel" /\ api'.pc = "returned"

(* What cancel_schedule does to the table and when it refuses. *)
CancelTouchesOnlyPending ==
  /\ CancelAccepted =>
       /\ StatusOf(schedules, api'.id) = "Pending"
       /\ schedules'[api'.id].status = "Cancelled"
       /\ \A other \in DOMAIN schedules \ {api'.id} : schedules'[other] = schedules[other]
       /\ DOMAIN schedules' = DOMAIN schedules
  /\ CancelRejected =>
       /\ StatusOf(schedules, api'.id) # "Pending"
       /\ api'.result # "Ok"
       /\ UNCHANGED <<schedules, scheduleFile>>

MissedWindow(job, t) ==
  /\ IsSome(job.maintenance_window_secs)
  /\ IsSome(job.scheduled_at)
  /\ t - Unwrap(job.scheduled_at) > Unwrap(job.maintenance_window_secs)

(* The error messages that contain "window". *)
WindowMessages == {"missed window", "missed maintenance window"}

(* C6: a job picked up after its maintenance window has passed goes        *)
(* directly to Failed with a message containing "window" and no hook,      *)
(* flash or switch_boot is run for it; a job without a window is never     *)
(* failed for being late.                                                  *)
C6_MissedWindowFails ==
  \A id \in DOMAIN schedules :
    LET job == schedules[id]
    IN /\ (IsSome(cur) /\ Unwrap(cur).id = id /\ MissedWindow(Unwrap(cur), tickAt)) =>
            /\ job.status = "Failed"
            /\ IsSome(job.error_message)
            /\ Unwrap(job.error_message) \in WindowMessages
            /\ runlog[id] = <<>>
       /\ (~IsSome(job.maintenance_window_secs) /\ IsSome(job.error_message)) =>
            Unwrap(job.error_message) \notin WindowMessages

StepOk(log, step) == \E i \in 1..Len(log) : log[i].step = step /\ log[i].ok

StepFailed(log) == \E i \in 1..Len(log) : ~log[i].ok

(* C7: a job is Completed only if its pre-hook, flash, switch_boot and     *)
(* post-hook all succeeded; when a step fails (a hook exiting non-zero or  *)
(* not starting included) no step is run after it, the job becomes Failed  *)
(* with error_message set, and it is not Running once the executor has     *)
(* finished with it.                                                       *)
C7_FailedStepFailsJob ==
  \A id \in DOMAIN schedules :
    LET job == schedules[id]
        log == runlog[id]
    IN /\ job.status = "Completed" =>
            /\ StepOk(log, "flash")
            /\ StepOk(log, "switch_boot")
            /\ IsSome(job.pre_update_hook) => StepOk(log, "pre_hook")
            /\ IsSome(job.post_update_hook) => StepOk(log, "post_hook")
            /\ ~StepFailed(log)
       /\ \A i \in 1..Len(log) : ~log[i].ok => i = Len(log)
       /\ id \in finished =>
            /\ job.status # "Running"
            /\ StepFailed(log) => job.status = "Failed" /\ IsSome(job.error_message)

(* The executor has finished with a job whose post-update hook failed      *)
(* after pre-hook and flash had succeeded.                                 *)
C7_Witness ==
  \E id \in finished :
    /\ schedules[id].status = "Failed"
    /\ Len(runlog[id]) = 3
    /\ runlog[id][3] = [step |-> "post_hook", ok |-> FALSE]

(***************************************************************************)
(* Properties of the image engine                                          *)
(***************************************************************************)
(* flash_image returned success: all chunks written, flushed, synced, and  *)
(* the digest, when one was given, is the digest of what was written.      *)
FlashSucceeded(f, expected_sha256) ==
  /\ IsSome(f)
  /\ Unwrap(f).ok
  /\ Unwrap(f).written = Unwrap(f).total
  /\ Unwrap(f).flushed
  /\ Unwrap(f).synced
  /\ (IsSome(expected_sha256) /\ Unwrap(expected_sha256) # "") =>
       Unwrap(f).digest = to_lowercase(Unwrap(expected_sha256))

(* C2: switch_boot is invoked for an install only after flash returned     *)
(* success for it (last chunk written, flushed, synced, digest matched);   *)
(* when flash fails switch_boot is not invoked and the boot attributes     *)
(* stay as they were.                                                      *)
C2_SwitchOnlyAfterFlash ==
  /\ [](/\ IsSome(inst.switch) => FlashSucceeded(inst.flash, inst.expected_sha256)
        /\ \A id \in DOMAIN runlog : \A i \in 1..Len(runlog[id]) :
             runlog[id][i].step = "switch_boot" =>
               \E j \in 1..(i - 1) : runlog[id][j] = [step |-> "flash", ok |-> TRUE]
        /\ (IsSome(cur) /\ StepOk(runlog[Unwrap(cur).id], "flash")) =>
             FlashSucceeded(execFlash, Unwrap(cur).expected_sha256))
  /\ [][(bootAttr' # bootAttr \/ bootNext' # bootNext) =>
          \/ inst' # inst /\ FlashSucceeded(inst.flash, inst.expected_sha256)
          \/ execPc' # execPc /\ IsSome(cur)
               /\ FlashSucceeded(execFlash, Unwrap(cur).expected_sha256)]_vars

(* An InstallUpdate with a digest has flashed two chunks and switched. *)
C2_Witness ==
  /\ inst.switch = Some(TRUE)
  /\ IsSome(inst.expected_sha256)
  /\ IsSome(inst.flash)
  /\ Unwrap(inst.flash).total = 2

(* C3: once an install with rollback enabled has switched the boot slot,   *)
(* the rollback record holds the slot that was active before the switch;   *)
(* as long as no install has switched, no rollback state is written.       *)
C3_RollbackRecordWritten ==
  /\ \A id \in DOMAIN schedules :
       (schedules[id].enable_auto_rollback /\ StepOk(runlog[id], "switch_boot")) =>
         load_rollback_state(rollbackFile).previous_partition = Some(active)
  /\ ((\A id \in DOMAIN runlog : ~StepOk(runlog[id], "switch_boot")) /\ inst.switch # Some(TRUE)) =>
       rollbackFile.state = "absent"

(* C11: at no time are two flash operations writing the inactive slot's    *)
(* block device at once, whatever the interleaving of the InstallUpdate    *)
(* stream and the schedule executor: the two tasks are never both between  *)
(* the opening of the device and the end of their flash_image.             *)
C11_NoConcurrentFlash ==
  ~(inst.pc = "flash_write" /\ execPc = "flash_write")

(***************************************************************************)
(* Properties of rollback                                                  *)
(***************************************************************************)
(* A step in which rollback_to_previous_partition is called. *)
RollbackCalled ==
  \/ \E env \in RollbackSwitchEnvs, w \in WriteOutcomes : supervisor_rollback(env, w)
  \/ \E env \in RollbackSwitchEnvs, w \in WriteOutcomes : trigger_rollback(env, w)

ClearedRecord(file) ==
  /\ load_rollback_state(file).previous_partition = None
  /\ load_rollback_state(file).boot_counter = 0

(* The parts of the rollback contract about a call that does not switch:   *)
(* no previous partition, switch_boot failing, a call right after a        *)
(* successful one.                                                         *)
RollbackRefusals ==
  LET previous == load_rollback_state(rollbackFile).previous_partition
  IN /\ ~IsSome(previous) =>
          /\ rb'.result = "No previous partition recorded for rollback"
          /\ rb'.target = None
          /\ UNCHANGED <<bootAttr, bootNext, rollbackFile>>
     /\ IsSome(previous) => rb'.target = previous
     /\ (IsSome(previous) /\ ~rb'.switched) =>
          /\ rb'.result # "Ok"
          /\ rollbackFile' = rollbackFile
     /\ rb.result = "Ok" => rb'.result # "Ok"

C10_HistoryHasAutomaticRollback ==
  (autoRolledBack /\ IsSome(history)) =>
    \E i \in 1..Len(Unwrap(history)) : Unwrap(history)[i].automatic

(***************************************************************************)
(* Properties of certificate rotation                                      *)
(***************************************************************************)
(* C4: a reader that has loaded the certificate and the key, during or     *)
(* after a rotation or renewal, holds a matched pair: both of one leaf.    *)
C4_ReaderLoadsMatchedPair ==
  rd.pc = "loaded" => rd.cert = rd.key

(***************************************************************************)
(* Properties of the transport and of the Kubernetes bootstrap             *)
(***************************************************************************)
(* C12: when the server leaf exists and both the bootstrap CA file and     *)
(* the operational CA file are available, the transport is configured      *)
(* with both as trust roots, whether or not the node has joined.           *)
C12_TrustsBothCAs ==
  (agentPc = "serving" /\ tls.leaf /\ tls.cas = CAs) =>
    (tls.mode = "mtls" /\ tls.roots = CAs)

(* C13: in every configuration of certificate files at agent start, the    *)
(* agent serves only with client-certificate verification, and an RPC      *)
(* other than SignBootstrapCertificate is served only to a client whose    *)
(* certificate chains to a CA in the trust anchor set.                     *)
C13_ClientAlwaysVerified ==
  /\ agentPc = "serving" => tls.mode = "mtls"
  /\ (lastRpc.rpc \notin {"", "SignBootstrapCertificate"} /\ lastRpc.result # "rejected") =>
       lastRpc.client \in tls.roots

(* C14: the "joined" that SignBootstrapCertificate refuses on and the      *)
(* is_joined that GetBootstrapStatus reports agree in every reachable      *)
(* state, also after a BootstrapKubernetes call that failed part-way, and  *)
(* SignBootstrapCertificate is refused exactly when is_joined holds.       *)
C14_JoinedAgrees ==
  /\ [](bootstrap_is_bootstrapped <=> BootstrapConfig_is_bootstrapped)
  /\ [][(lastRpc' # lastRpc /\ lastRpc'.rpc = "SignBootstrapCertificate"
           /\ lastRpc'.result # "rejected") =>
          (lastRpc'.result = "Node already bootstrapped" <=> BootstrapConfig_is_bootstrapped)]_vars

(***************************************************************************)
(* Properties of keel-init                                                 *)
(***************************************************************************)
(* C15: PID 1 never terminates and never panics: whatever fails and        *)
(* however often the agent is restarted, it is setting up, in the          *)
(* supervision loop or in the maintenance loop.                            *)
C15_Pid1NeverTerminates ==
  pid1 \in {"run", "start", "reap", "containerd", "agent", "backoff", "kubelet", "signal", "sleep",
            "maintenance"}

(* C16: whenever containerd has exited, the supervision loop eventually    *)
(* detects the exit and respawns it, whatever the interleaving of the exit *)
(* with reap_zombies and the try_wait of the containerd check.             *)
C16_ContainerdRespawned ==
  (containerd.proc = "zombie") ~> (containerd.proc = "running")

(* C17: the delay before the respawn that follows n successful agent       *)
(* respawns is min(2^n, 60) seconds, for every n.                          *)
C17_BackoffDelay ==
  pid1 = "backoff" =>
    delay = Some(IF agent_restart_count < 6 THEN Pow2(agent_restart_count) ELSE 60)

C19_KubeletNotRespawned ==
  [][(kubelet.proc # "running" /\ kubelet'.proc = "running") =>
       (pid1 = "start" \/ (pid1 = "signal" /\ restartSignal))]_vars

(* The kubelet has exited, the supervisor has noticed and dropped the      *)
(* handle, and has gone through the loop without a restart signal.         *)
C19_Witness ==
  /\ kubelet = NoChild
  /\ pid1 = "sleep"
  /\ exits > 0
  /\ ~restartSignal
  /\ containerd.proc = "running"

(***************************************************************************)
(* Properties of get_due_schedules                                         *)
(***************************************************************************)
(* C20: get_due_schedules returns exactly the jobs that are Pending with   *)
(* scheduled_at present and not after now; a job without scheduled_at is   *)
(* never returned, never dispatched by the executor, and leaves Pending    *)
(* only through cancel.                                                    *)
C20_DueExactly ==
  /\ [][(execPc = "sleep" /\ execPc' = "loop") =>
          /\ { batch'[i].id : i \in DOMAIN batch' } =
               { id \in DOMAIN schedules :
                   /\ schedules[id].status = "Pending"
                   /\ schedules[id].scheduled_at # None
                   /\ schedules[id].scheduled_at[1] <= now }
          /\ \A i, j \in DOMAIN batch' : batch'[i].id = batch'[j].id => i = j]_vars
  /\ [](\A id \in DOMAIN schedules :
          schedules[id].scheduled_at = None =>
            /\ schedules[id].status \in {"Pending", "Cancelled"}
            /\ runlog[id] = <<>>
            /\ id \notin finished
            /\ \A i \in DOMAIN batch : batch[i].id # id
            /\ IsSome(cur) => Unwrap(cur).id # id)
  /\ [][\A id \in DOMAIN schedules :
          (schedules[id].scheduled_at = None /\ schedules[id].status = "Pending"
             /\ schedules'[id].status # "Pending") => CancelAccepted]_vars

(* A job without scheduled_at has been left alone by the executor until    *)
(* the end of the clock and then cancelled.                                *)
C20_Witness ==
  \E id \in DOMAIN schedules :
    /\ schedules[id].scheduled_at = None
    /\ schedules[id].status = "Cancelled"
    /\ now = MaxTime

(***************************************************************************)
(* Properties of the job timestamps                                        *)
(***************************************************************************)
(* C21: in every reachable state of the job table a job whose status is    *)
(* terminal (Completed, Failed, Cancelled, RolledBack) has completed_at    *)
(* set, whichever operation put it there, and a job that is beyond Pending *)
(* through the executor has started_at set.                                *)
C21_TerminalHasTimestamps ==
  \A id \in DOMAIN schedules :
    /\ schedules[id].status \in TerminalStatuses => IsSome(schedules[id].completed_at)
    /\ schedules[id].status \in {"Running", "Completed", "Failed"} =>
         IsSome(schedules[id].started_at)

(***************************************************************************)
(* Properties of the health classification                                 *)
(***************************************************************************)
(* C22: the overall status is Unhealthy if and only if at least one        *)
(* critical probe returned Fail; otherwise Degraded if and only if at      *)
(* least one non-critical probe returned Fail; otherwise Healthy.  A probe *)
(* that returned Unknown counts as no failure.                             *)
C22_StatusClassification ==
  healthRpc.pc = "returned" =>
    LET failed(c) == healthRpc.checks[c] = "fail"
        criticalFail == failed("boot") \/ failed("api")
        otherFail == failed("network")
    IN /\ healthRpc.status = "unhealthy" <=> criticalFail
       /\ healthRpc.status = "degraded" <=> (~criticalFail /\ otherFail)
       /\ healthRpc.status = "healthy" <=> (~criticalFail /\ ~otherFail)

(* A critical probe and the non-critical probe returned Unknown, nothing   *)
(* failed, and the response says healthy.                                  *)
C22_Witness ==
  /\ healthRpc.pc = "returned"
  /\ healthRpc.checks["boot"] = "unknown"
  /\ healthRpc.checks["network"] = "unknown"
  /\ healthRpc.status = "healthy"

(***************************************************************************)
(* Properties of the partition detection                                   *)
(***************************************************************************)
(* The device path without its partition number. *)
DiskOf(dev) == SubSeq(dev, 1, Len(dev) - Len(TrailingDigits(dev)))

(* C23: for an active slot with index 2 or 3, get_inactive_partition       *)
(* returns the other index on the same disk, never the active slot, and    *)
(* the complement of the complement is the active slot again (index and    *)
(* device path), whatever the name of the disk.                            *)
C23_InactiveIsInvolution ==
  (detect.pc = "inactive" /\ detect.active.ok /\ detect.active.index \in Slots) =>
    /\ detect.inactive.ok
    /\ detect.inactive.index \in Slots \ {detect.active.index}
    /\ detect.inactive.device # detect.active.device
    /\ DiskOf(detect.inactive.device) = DiskOf(detect.active.device)
    /\ inactive_of(detect.inactive) = detect.active

(* C24: get_active_partition never returns an error: when /proc/cmdline    *)
(* cannot be read, when the PARTUUID symlink is missing or when the        *)
(* partition index of the root= device cannot be parsed, the answer is the *)
(* mount table entry for / and, failing that, slot A.                      *)
C24_ActiveNeverFails ==
  detect.pc # "idle" =>
    /\ detect.active.ok
    /\ (\/ cmdline.kind = "unreadable"
        \/ (cmdline.kind = "partuuid" /\ partLink = None)
        \/ (cmdline.kind = "dev" /\ parse_u32(TrailingDigits(cmdline.root)) = None)) =>
         detect.active =
           (IF rootMount.kind = "dev" /\ parse_u32(TrailingDigits(rootMount.dev)) # None
              THEN PartitionInfo(<<"/dev/">> \o rootMount.dev,
                                 Unwrap(parse_u32(TrailingDigits(rootMount.dev))))
              ELSE DefaultSlotA)

(***************************************************************************)
(* Properties of rotate_certificate                                        *)
(***************************************************************************)
(* C27: when rotate_certificate has returned an error, at whatever step,   *)
(* the canonical certificate and key files hold the pair they held before  *)
(* the call: the new leaf is in neither of them.                           *)
C27_ErrorLeavesOldPair ==
  (rot.pc = "done" /\ rot.op = "rotate" /\ rot.result # "Ok") =>
    (certFile # rot.leaf /\ keyFile # rot.leaf)

(* C28: rotate_certificate installs the new certificate only if it parses  *)
(* and is not expired: for an unparsable or expired certificate it returns *)
(* an error and never touches the canonical certificate and key files.     *)
C28_InvalidNotInstalled ==
  (rot.op = "rotate" /\ rot.pem \in {"expired", "garbage"}) =>
    /\ certFile # rot.leaf
    /\ keyFile # rot.leaf
    /\ rot.pc = "done" => rot.result # "Ok"

(***************************************************************************)
(* Properties of the certificate manager                                   *)
(***************************************************************************)
(* The whole days left until the not_after of the installed server leaf. *)
WholeDaysLeft == TruncDiv(ttl[certFile], TicksPerDay)

(* C25: the monitor rotates the server leaf if and only if fewer than      *)
(* rotation_days_before_expiry whole days remain until its not_after; with *)
(* exactly that many whole days left it does not; and should_rotate        *)
(* decides on the same boundary.                                           *)
C25_RotatesBelowBoundary ==
  [][(mon.pc = "check" /\ mon'.pc # "check" /\ mon'.checked) =>
       /\ mon'.pc = "issue" <=> WholeDaysLeft < rotation_days_before_expiry
       /\ should_rotate(ttl[certFile], UnixNow) <=>
            WholeDaysLeft < rotation_days_before_expiry]_vars

(* C26: whenever the monitor has rotated the server leaf, needs_reload     *)
(* becomes true and from then on the transport eventually holds a TLS      *)
(* configuration built from the leaf and key installed; needs_reload only  *)
(* becomes true when a rotation has succeeded.                             *)
C26_ReloadAfterRotation ==
  /\ [][(mon.pc = "rotate" /\ rot.pc = "done" /\ rot.result = "Ok" /\ mon'.pc # "rotate")
          => needs_reload']_vars
  /\ needs_reload ~> (rd.pc = "loaded" /\ rd.cert = certFile /\ rd.key = keyFile)
  /\ [][(~needs_reload /\ needs_reload') =>
          (mon.pc = "rotate" /\ rot.pc = "done" /\ rot.result = "Ok")]_vars

(***************************************************************************)
(* Properties of the bootstrap material                                    *)
(***************************************************************************)
(* C29: once the node has joined the cluster (kubelet.kubeconfig is        *)
(* present) the bootstrap CA is eventually deleted from the crypto         *)
(* directory, and it is never deleted while the node has not joined.       *)
C29_BootstrapMaterialDeleted ==
  /\ kubeconfigFile ~> ~bootstrapCa
  /\ [][(bootstrapCa /\ ~bootstrapCa') => kubeconfigFile]_vars

(* C30: no two leaves signed by the bootstrap CA within its lifetime carry *)
(* the same serial number, however many SignBootstrapCertificate calls     *)
(* are served.                                                             *)
C30_SerialsUnique ==
  \A i \in DOMAIN signedLeaves : \A j \in DOMAIN signedLeaves :
    i # j => signedLeaves[i].serial # signedLeaves[j].serial

(***************************************************************************)
(* Properties of the wait for a signed certificate                         *)
(***************************************************************************)
(* C31: a request for an operational leaf polls the signer a bounded       *)
(* number of times and ends with exactly one of the certificate,           *)
(* SigningDenied as soon as a poll sees the request marked Denied, or      *)
(* Timeout, on both request paths.                                         *)
C31_WaitOutcomes ==
  /\ [](csrReq.polls <= server_cert_max_wait_secs \div server_cert_poll_secs)
  /\ [](csrReq.pc = "returned" => csrReq.result \in {"certificate", "SigningDenied", "Timeout"})
  /\ [][(csrReq.pc = "waiting" /\ csrReq'.polls = csrReq.polls + 1 /\ csrObj = "denied"
           /\ csrReq'.result # "ApiError")
          => (csrReq'.pc = "returned" /\ csrReq'.result = "SigningDenied")]_vars


(***************************************************************************)
(* Properties of the boot counter                                          *)
(***************************************************************************)
(* C32: the persisted boot_counter is incremented once on every boot, is   *)
(* reset to 0 after a boot whose post-grace health check passes and after  *)
(* a rollback, and a boot loop is reported exactly when it is 3 or more.   *)
C32_BootCounter ==
  /\ [][boots' = boots + 1 =>
          get_boot_counter(rollbackFile') = get_boot_counter(rollbackFile) + 1]_vars
  /\ [][(supPc = "grace" /\ supPc' = "stable") => get_boot_counter(rollbackFile') = 0]_vars
  /\ [][(RollbackCalled /\ rb'.result = "Ok") => get_boot_counter(rollbackFile') = 0]_vars
  /\ [](is_boot_loop(rollbackFile) <=> get_boot_counter(rollbackFile) >= 3)


(***************************************************************************)
(* Properties of the order of the executor's steps                         *)
(***************************************************************************)
(* The place of a step in the order transition to Running, pre-hook,       *)
(* flash, switch_boot, post-hook.                                          *)
StepRank(step) ==
  CASE step = "pre_hook" -> 1
    [] step = "flash" -> 2
    [] step = "switch_boot" -> 3
    [] step = "post_hook" -> 4

(* C33: for each job the executor runs pre-hook, flash, switch_boot and    *)
(* post-hook in this order between the transition to Running and the       *)
(* terminal transition; the post-hook runs only after switch_boot has      *)
(* succeeded, so a failing post-hook leaves the boot slot switched.        *)
C33_StepOrder ==
  \A id \in DOMAIN runlog :
    /\ runlog[id] # <<>> => schedules[id].status # "Pending"
    /\ \A i \in 1..Len(runlog[id]) : \A j \in 1..Len(runlog[id]) :
         i < j => StepRank(runlog[id][i].step) < StepRank(runlog[id][j].step)
    /\ \A i \in 1..Len(runlog[id]) :
         runlog[id][i].step = "post_hook" =>
           \E j \in 1..(i - 1) : runlog[id][j] = [step |-> "switch_boot", ok |-> TRUE]


(***************************************************************************)
(* Properties of a cancel racing the executor                              *)
(***************************************************************************)
(* The executor starts to write the image of job id to the device, or      *)
(* calls switch_boot_partition for it, in this step.                       *)
FlashesOrSwitches(id) ==
  /\ IsSome(cur)
  /\ Unwrap(cur).id = id
  /\ \/ execPc = "flash_open" /\ execPc' = "flash_write"
     \/ /\ Len(runlog'[id]) = Len(runlog[id]) + 1
        /\ runlog'[id][Len(runlog'[id])].step = "switch_boot"

(* C34: once cancel_schedule(id) has returned success the executor never   *)
(* flashes the image of job id and never switches the boot slot for it,    *)
(* also when the tick had fetched id as due before the cancel.             *)
C34_CancelledNeverRuns ==
  [][(api.pc = "returned" /\ api.op = "cancel" /\ api.result = "Ok")
       => ~FlashesOrSwitches(api.id)]_vars


(***************************************************************************)
(* Properties of the writes of the state files                             *)
(***************************************************************************)
(* C35: persisting the schedule table and the rollback state replaces the  *)
(* canonical file atomically: at every instant, a crash or a read in the   *)
(* middle of a persist included, the file holds the complete previous or   *)
(* the complete new content, never a truncated or partial one.             *)
C35_AtomicReplace ==
  /\ [][scheduleFile' # scheduleFile => scheduleFile' = [state |-> "ok", table |-> schedules]]_vars
  /\ [][rollbackFile' # rollbackFile =>
          rollbackFile' = [state |-> "ok", record |-> DefaultRollbackState]]_vars
  /\ [](scheduleFile.state # "truncated" /\ rollbackFile.state # "truncated")


(***************************************************************************)
(* Properties of the scheduler lock                                        *)
(***************************************************************************)
(* get_due_schedules reads the job table in this step. *)
ReaderReads == execPc = "sleep" /\ execPc' = "loop"

(* C36: a mutation of the job table holds the write lock from the          *)
(* in-memory change until the table is in the schedule file: a reader      *)
(* never observes a job state that is not yet in the persisted file, and   *)
(* the file reflects every status transition in order (no mutation is      *)
(* made on top of one that is not yet persisted).                          *)
C36_LockCoversPersist ==
  /\ [][ReaderReads => schedules = load_schedules(scheduleFile)]_vars
  /\ [][schedules' # schedules => schedules = load_schedules(scheduleFile)]_vars


(***************************************************************************)
(* Properties of the scheduler over failed writes and restarts             *)
(***************************************************************************)
(* The number of times the executor wrote the image of a job to the device *)
(* (flash_image calls that ran to their end).                              *)
FlashCount(log) == Cardinality({ i \in 1..Len(log) : log[i] = [step |-> "flash", ok |-> TRUE] })

(* C37: each scheduled job is executed (its flash started) at most once    *)
(* over the whole life of the persisted schedule, also when a persist      *)
(* write fails during a transition and when the agent is restarted and a   *)
(* new scheduler is loaded from the schedule file.                         *)
C37_ExecutedAtMostOnce ==
  \A id \in DOMAIN runlog : FlashCount(runlog[id]) <= 1


(* C38: if schedule_update returns an error (the schedule file could not   *)
(* be written) no job has been added: the job table is as before the call  *)
(* and no later executor tick runs the rejected job.                       *)
C38_RejectedJobNotAdded ==
  /\ [][(api.pc = "persist" /\ api.op = "schedule" /\ api'.pc = "returned" /\ api'.result # "Ok")
          => api.id \notin DOMAIN schedules']_vars
  /\ [][(api.pc = "returned" /\ api.op = "schedule" /\ api.result # "Ok")
          => ~(ReaderReads /\ \E i \in DOMAIN batch' : batch'[i].id = api.id)]_vars


(* C39: every Pending job whose scheduled_at has come is eventually        *)
(* dispatched, and every job that enters Running eventually reaches        *)
(* Completed or Failed, also when the agent stops while the job is Running *)
(* and a new scheduler is constructed from the schedule file.              *)
C39_JobsFinish ==
  \A id \in 1..MaxJobs :
    /\ (id \in get_due_schedules(schedules, now)) ~> (StatusOf(schedules, id) # "Pending")
    /\ (StatusOf(schedules, id) = "Running")
         ~> (StatusOf(schedules, id) \in {"Completed", "Failed"})


(***************************************************************************)
(* Properties of the order of the due jobs                                 *)
(***************************************************************************)
(* C40: get_due_schedules returns the due jobs in a deterministic order:   *)
(* two runs that apply the same sequence of operations obtain the same     *)
(* order, so they flash the jobs due in one tick in the same order and the *)
(* slot ends up holding the same image.                                    *)
C40_DueOrderDeterministic ==
  /\ replay.pc \in {"flash", "done"} => replay.orders[1] = replay.orders[2]
  /\ replay.pc = "done" => replay.slots[1] = replay.slots[2]


====
